---- MODULE Spec2Model ----
(***************************************************************************)
(* A model of blink-sync-brain's processing side:                          *)
(*   - the ingestion pipeline of core/video_processor.py (directory        *)
(*     watcher, asyncio queue, background consumer), driven through the    *)
(*     start/stop lifecycle of processor/main.py;                          *)
(*   - the face gallery and the matcher of core/face_recognition.py;       *)
(*   - the retention sweep and the monitoring loop of                      *)
(*     core/storage_manager.py;                                            *)
(*   - stitch_videos and process_video called directly.                    *)
(* All tasks run on one asyncio event loop: a task's step is the code      *)
(* between two suspension points (await of a sleep, a queue get or a       *)
(* subprocess), and steps of different tasks interleave.                   *)
(***************************************************************************)
EXTENDS Integers, Sequences, FiniteSets, TLC

(***************************************************************************)
(* Bounds of the model and constants of the program.                       *)
(***************************************************************************)
\* Largest file size the writer of a recording reaches (in blocks).
MaxSize == 2
\* Number of task slots of the event loop available to each kind of loop.
MaxTasks == 2
\* video_processor.py:282  `if len(processed_files) > 1000`
SeenCap == 1000

(***************************************************************************)
(* Paths of the watched video directory.                                   *)
(***************************************************************************)
NoPath == "none"
Paths == {"a.mp4", "b.mkv", "n.txt"}

\* Path.suffix.lower() of the model's paths.
Suffix(p) ==
  CASE p = "a.mp4" -> ".mp4"
    [] p = "b.mkv" -> ".mkv"
    [] p = "n.txt" -> ".txt"
    [] p = "a.mkv" -> ".mkv"
    [] p = "sub/a.mp4" -> ".mp4"

\* Path.stem of the model's paths.
Stem(p) ==
  CASE p = "a.mp4" -> "a"
    [] p = "b.mkv" -> "b"
    [] p = "n.txt" -> "n"
    [] p = "a.mkv" -> "a"
    [] p = "sub/a.mp4" -> "a"

\* video_processor.py:264
video_extensions == {".mp4", ".avi", ".mov", ".mkv"}

\* video_processor.py:442  the result file of a processed video
ResultFileName(p) == <<Stem(p), "_results.json">>

\* The output_dir argument of process_video: a directory, or None.
NoDir == "None"

TaskIds == 1..MaxTasks

VARIABLES
  \* ---- VideoProcessor and the tasks it creates
  mainPc,            \* the caller of start_processing / stop_processing
  is_processing,     \* VideoProcessor.is_processing
  processing_queue,  \* VideoProcessor.processing_queue (asyncio.Queue), head first
  unfinished_tasks,  \* asyncio.Queue's count of put items not yet task_done
  cPc,               \* position of each _processing_loop task
  cVideo,            \* video_path of each _processing_loop task
  wPc,               \* position of each _monitor_video_directory task
  wSeen,             \* processed_files of each watcher: the paths of Paths in it
  wSeenOld,          \* processed_files of each watcher: how many other paths
  wTodo,             \* entries of the current rglob listing not yet visited
  wFile,             \* file_path of the running _is_file_complete
  wSize,             \* initial_size of the running _is_file_complete
  \* ---- the file system
  fs,                \* video directory: present path -> size
  results,           \* result files written by _save_results
  \* ---- history of the run
  enqLog,            \* every path put on the queue, in order
  startLog,          \* every path process_video was started on by a consumer
  processed,         \* paths a consumer's process_video returned a result for
  failed             \* paths for which process_video raised in a consumer

pipeVars == <<mainPc, is_processing, processing_queue, unfinished_tasks, cPc,
              cVideo, wPc, wSeen, wSeenOld, wTodo, wFile, wSize, fs, results,
              enqLog, startLog, processed, failed>>

VARIABLES
  \* ---- FaceRecognitionEngine
  known_faces,       \* list of KnownFace records
  face_encodings,    \* list of encodings
  face_names,        \* list of names
  model_path,        \* path of the gallery file, or None
  is_loaded,         \* the "loaded" flag
  \* ---- the gallery files and the callers of the engine
  disk,              \* gallery path -> content of the file
  lastCall,          \* the last gallery operation and what it returned
  lastMatch          \* the last recognize_face call and the name it returned

galVars == <<known_faces, face_encodings, face_names, model_path, is_loaded,
             disk, lastCall, lastMatch>>

VARIABLES
  \* ---- StorageManager
  is_monitoring,     \* the running flag of the storage monitoring loop
  mPc,               \* where the _monitoring_loop task is
  mLast,             \* what its last iteration saw and did
  \* ---- the storage directories and the callers of cleanup_old_files
  sdirs,             \* the storage directories that exist
  sfiles,            \* file in a storage directory -> its modification day
  now,               \* the day datetime.now() returns
  lastCleanup        \* the last cleanup_old_files call and what it returned

stoVars == <<is_monitoring, mPc, mLast, sdirs, sfiles, now, lastCleanup>>

VARIABLES
  \* ---- the direct callers of VideoProcessor
  stitchArgs,        \* the arguments of stitch_videos and the files they name
  lastStitch,        \* the last stitch_videos call and how it ended
  footage,           \* what the engine makes of each face of the sampled frames
  lastProcess        \* the last direct process_video call and how it ended

vidVars == <<stitchArgs, lastStitch, footage, lastProcess>>

vars == <<pipeVars, galVars, stoVars, vidVars>>

(***************************************************************************)
(* VideoProcessor called directly: stitch_videos and process_video.        *)
(***************************************************************************)
\* Longest video_paths list handed to stitch_videos.
MaxClips == 3
\* The videos that can be stitched and the times their files can carry.
Clips == {"c1.mp4", "c2.mp4", "c3.mp4"}
Times == {1, 2}

\* What _extract_metadata does on a video: it returns the metadata; ffprobe
\* fails on a file that is there; the file is missing, so that stat() raises
\* as well.
Probes == {"ok", "failed", "missing"}

\* stitch_videos(video_paths, ...) and, for each video, metadata.created,
\* st_mtime and the outcome of the extraction.
AllStitchArgs ==
  [video_paths : UNION {[1..n -> Clips] : n \in 0..MaxClips},
   created : [Clips -> Times],
   mtime : [Clips -> Times], probe : [Clips -> Probes]]

NoStitch ==
  [called |-> FALSE, written |-> FALSE, manifest |-> <<>>,
   raised |-> FALSE, returned |-> FALSE]

\* Most faces the sampled frames of a video show.
MaxDetections == 2
\* What _analyze_faces gets for one detected face: no encoding
\* (get_face_encoding returns None), or the name recognize_face returns,
\* which is "Unknown" or the name of a gallery entry; add_known_face takes
\* any string as a name, the empty one included.
NoEncoding == "None"
FaceOutcomes == {NoEncoding, "Unknown", "alice", ""}

NoProcess ==
  [called |-> FALSE, video |-> NoPath, raised |-> FALSE, returned |-> FALSE,
   probe_runs |-> 0, analysis_started |-> FALSE, open_runs |-> 0,
   saved |-> FALSE, face_detections |-> <<>>, recognized_faces |-> <<>>]

NoStitchArgs ==
  [video_paths |-> <<>>, created |-> [c \in Clips |-> 1],
   mtime |-> [c \in Clips |-> 1], probe |-> [c \in Clips |-> "ok"]]

\* No direct call has been made.
NoDirectCalls ==
  /\ stitchArgs = NoStitchArgs
  /\ lastStitch = NoStitch
  /\ footage = <<>>
  /\ lastProcess = NoProcess

(***************************************************************************)
(* StorageManager: its settings and its state after construction.          *)
(***************************************************************************)
\* settings.py:24  cleanup_threshold, percent
CleanupThreshold == 80
\* settings.py:25  retention_days
RetentionDays == 30
\* settings.py:26  storage.monitor_interval, seconds
MonitorInterval == 300
\* storage_manager.py:298  `await asyncio.sleep(60)`, seconds
ErrorBackoff == 60

\* The clock advances by at most MaxTicks days.
MaxTicks == 1
\* The day the service is observed from.
StartDay == RetentionDays + 1

\* settings.storage.video_directory and results_directory (settings.py:22-23)
VideoDir == "videos"
ResultsDirectory == "results"
Dirs == {VideoDir, ResultsDirectory}

\* The files that can lie in the storage directories, the directory and the
\* size (st_size) of each.
StoragePaths == {"videos/a.mp4", "videos/b.mkv", "results/r1.json"}
DirOf(p) == IF p = "results/r1.json" THEN ResultsDirectory ELSE VideoDir
SizeOf(p) ==
  CASE p = "videos/a.mp4" -> 1
    [] p = "videos/b.mkv" -> 2
    [] p = "results/r1.json" -> 4

\* The modification days of the files: with the clock at StartDay the
\* cutoff is day 1, so a file is older than, at, or younger than the cutoff.
MTimes == {0, 1, 2}

\* The result dict of lines 102-108 and 431-437 (lists kept as sets of
\* paths), with what the caller knows about the call: whether it was a dry
\* run, its day, whether a file has arrived since, and, for a real run that
\* directly follows a real run with no arrival in between, how many files
\* that run deleted (-1 otherwise).
NoCleanup ==
  [called |-> FALSE, dry_run |-> FALSE, day |-> 0, undisturbed |-> FALSE,
   prior_deleted |-> -1,
   files_processed |-> 0, files_deleted |-> 0, bytes_freed |-> 0,
   errors |-> {}, deleted_files |-> {}]
\* What one iteration of _monitoring_loop saw and did: the usage percent the
\* statistics reported (-1 when they reported none), whether computing them
\* failed, whether the body raised, whether it called cleanup_old_files and
\* with which dry_run, and the seconds it then sleeps.
NoIteration ==
  [ran |-> FALSE, usage |-> -1, stats_error |-> FALSE, failed |-> FALSE,
   cleaned |-> FALSE, dry_run |-> FALSE, wait |-> 0]

\* StorageManager.__init__ (storage_manager.py:28-32), before the storage
\* directories are created.
StorageCreated ==
  /\ is_monitoring = FALSE
  /\ mPc = "none"
  /\ mLast = NoIteration
  /\ sdirs = {}
  /\ sfiles = [p \in {} |-> 0]
  /\ now = StartDay
  /\ lastCleanup = NoCleanup

(***************************************************************************)
(* The state of the processing service.                                    *)
(***************************************************************************)
NoTasks == [t \in TaskIds |-> "none"]

\* A directory without entries.
EmptyDir == [p \in {} |-> 0]

\* VideoProcessor.__init__ and a video directory that holds no file yet.
InitFresh ==
  /\ mainPc = "created"
  /\ is_processing = FALSE
  /\ processing_queue = <<>>
  /\ unfinished_tasks = 0
  /\ cPc = NoTasks
  /\ cVideo = [t \in TaskIds |-> NoPath]
  /\ wPc = NoTasks
  /\ wSeen = [t \in TaskIds |-> {}]
  /\ wSeenOld = [t \in TaskIds |-> 0]
  /\ wTodo = [t \in TaskIds |-> {}]
  /\ wFile = [t \in TaskIds |-> NoPath]
  /\ wSize = [t \in TaskIds |-> 0]
  /\ fs = EmptyDir
  /\ results = {}
  /\ enqLog = <<>>
  /\ startLog = <<>>
  /\ processed = {}
  /\ failed = {}

\* A service that has been running for long: its watcher has queued SeenCap
\* recordings, all of them processed and since removed from the directory
\* (processed_files keeps their paths), the queue is empty, the consumer
\* waits in queue.get and the watcher sleeps between two scans.  The history
\* starts at this state.
InitLongRunning ==
  /\ mainPc = "running"
  /\ is_processing = TRUE
  /\ processing_queue = <<>>
  /\ unfinished_tasks = 0
  /\ cPc = [t \in TaskIds |-> IF t = 1 THEN "get" ELSE "none"]
  /\ cVideo = [t \in TaskIds |-> NoPath]
  /\ wPc = [t \in TaskIds |-> IF t = 1 THEN "sleep" ELSE "none"]
  /\ wSeen = [t \in TaskIds |-> {}]
  /\ wSeenOld = [t \in TaskIds |-> IF t = 1 THEN SeenCap ELSE 0]
  /\ wTodo = [t \in TaskIds |-> {}]
  /\ wFile = [t \in TaskIds |-> NoPath]
  /\ wSize = [t \in TaskIds |-> 0]
  /\ fs = EmptyDir
  /\ results = {}
  /\ enqLog = <<>>
  /\ startLog = <<>>
  /\ processed = {}
  /\ failed = {}

(***************************************************************************)
(* start_processing and stop_processing, called as processor/main.py calls *)
(* them: one start, then one stop.                                         *)
(***************************************************************************)
\* The lowest task slot not in use.
FreeSlot(pcs) == CHOOSE t \in TaskIds :
                   /\ pcs[t] = "none"
                   /\ \A u \in TaskIds : u < t => pcs[u] # "none"

\* As CreateProcessingLoop, but with one worker per slot, as a pool sized by
\* max_concurrent_videos would be created.
CreateProcessingPool(pcs) == [t \in TaskIds |-> "start"]

\* asyncio.create_task(self._processing_loop()): one consumer task.
CreateProcessingLoop(pcs) ==
  IF \E t \in TaskIds : pcs[t] = "none"
    THEN [pcs EXCEPT ![FreeSlot(pcs)] = "start"]
    ELSE pcs

\* asyncio.create_task(self._monitor_video_directory()): one watcher task.
CreateMonitor(pcs) ==
  IF \E t \in TaskIds : pcs[t] = "none"
    THEN [pcs EXCEPT ![FreeSlot(pcs)] = "start"]
    ELSE pcs

StartProcessing ==
  /\ mainPc = "created"
  /\ is_processing' = TRUE
  /\ cPc' = CreateProcessingLoop(cPc)
  /\ wPc' = CreateMonitor(wPc)
  /\ mainPc' = "running"
  /\ UNCHANGED <<processing_queue, unfinished_tasks, cVideo, wSeen, wSeenOld,
                 wTodo, wFile, wSize, fs, results, enqLog, startLog,
                 processed, failed>>
  /\ UNCHANGED <<galVars, stoVars, vidVars>>

\* start_processing called on a service that was started before (the method
\* has no test of is_processing): the flag is set and two more tasks are
\* created, whether or not the tasks of the earlier start have ended.
RestartProcessing ==
  /\ mainPc \in {"running", "stopped"}
  /\ \E t \in TaskIds : cPc[t] = "none"
  /\ is_processing' = TRUE
  /\ cPc' = CreateProcessingLoop(cPc)
  /\ wPc' = CreateMonitor(wPc)
  /\ mainPc' = "running"
  /\ UNCHANGED <<processing_queue, unfinished_tasks, cVideo, wSeen, wSeenOld,
                 wTodo, wFile, wSize, fs, results, enqLog, startLog,
                 processed, failed>>
  /\ UNCHANGED <<galVars, stoVars, vidVars>>

\* stop_processing up to its first suspension: the flag is cleared and the
\* queue is tested at once; a non-empty queue sends the caller to sleep(1).
StopProcessing ==
  /\ mainPc = "running"
  /\ is_processing' = FALSE
  /\ mainPc' = IF processing_queue = <<>> THEN "stopped" ELSE "draining"
  /\ UNCHANGED <<processing_queue, unfinished_tasks, cPc, cVideo, wPc, wSeen,
                 wSeenOld, wTodo, wFile, wSize, fs, results, enqLog, startLog,
                 processed, failed>>
  /\ UNCHANGED <<galVars, stoVars, vidVars>>

\* stop_processing after a sleep(1): it returns once the queue is empty.
StopPoll ==
  /\ mainPc = "draining"
  /\ processing_queue = <<>>
  /\ mainPc' = "stopped"
  /\ UNCHANGED <<is_processing, processing_queue, unfinished_tasks, cPc, cVideo,
                 wPc, wSeen, wSeenOld, wTodo, wFile, wSize, fs, results, enqLog,
                 startLog, processed, failed>>
  /\ UNCHANGED <<galVars, stoVars, vidVars>>

(***************************************************************************)
(* _processing_loop: the background consumer.  A task is "start" when      *)
(* created and not yet run, then at one of its awaits: "get" (wait_for of  *)
(* queue.get), "process" (the subprocess of process_video), "backoff"      *)
(* (sleep 5); "exited" once the loop is left.                              *)
(***************************************************************************)
\* `while self.is_processing:` at the head of an iteration: the task goes on
\* to the await of wait_for(queue.get(), 1.0), or leaves the loop.
ConsumerIterate == IF is_processing THEN "get" ELSE "exited"

\* The task runs for the first time.
ConsumerStart(t) ==
  /\ cPc[t] = "start"
  /\ cPc' = [cPc EXCEPT ![t] = ConsumerIterate]
  /\ UNCHANGED <<mainPc, is_processing, processing_queue, unfinished_tasks,
                 cVideo, wPc, wSeen, wSeenOld, wTodo, wFile, wSize, fs, results,
                 enqLog, startLog, processed, failed>>
  /\ UNCHANGED <<galVars, stoVars, vidVars>>

\* As QueueGetItem, but handing out the newest item (a LIFO queue).
QueueGetNewest(q) == q[Len(q)]

\* The item queue.get() hands to a consumer, and what it leaves in the queue.
QueueGetItem(q) == Head(q)
QueueGetRest(q) == Tail(q)

\* queue.get() returns an item; process_video(video_path) starts and runs to
\* its first await (the ffprobe subprocess of _extract_metadata).
ConsumerGet(t) ==
  /\ cPc[t] = "get"
  /\ processing_queue # <<>>
  /\ cVideo' = [cVideo EXCEPT ![t] = QueueGetItem(processing_queue)]
  /\ processing_queue' = QueueGetRest(processing_queue)
  /\ startLog' = Append(startLog, QueueGetItem(processing_queue))
  /\ cPc' = [cPc EXCEPT ![t] = "process"]
  /\ UNCHANGED <<mainPc, is_processing, unfinished_tasks, wPc, wSeen, wSeenOld,
                 wTodo, wFile, wSize, fs, results, enqLog, processed, failed>>
  /\ UNCHANGED <<galVars, stoVars, vidVars>>

\* asyncio.TimeoutError after 1 s on an empty queue: `continue`.
ConsumerTimeout(t) ==
  /\ cPc[t] = "get"
  /\ processing_queue = <<>>
  /\ cPc' = [cPc EXCEPT ![t] = ConsumerIterate]
  /\ UNCHANGED <<mainPc, is_processing, processing_queue, unfinished_tasks,
                 cVideo, wPc, wSeen, wSeenOld, wTodo, wFile, wSize, fs, results,
                 enqLog, startLog, processed, failed>>
  /\ UNCHANGED <<galVars, stoVars, vidVars>>

\* The output_dir the consumer passes to process_video (line 239: none).
ConsumerOutputDir == NoDir

\* process_video lines 116-118: _save_results, only with an output_dir.
SaveResults(res, video, output_dir) ==
  IF output_dir # NoDir THEN res \cup {ResultFileName(video)} ELSE res

\* As ProcessingFailed, but without the handler: the exception ends the task.
FailureEndsLoop == "exited"

\* Lines 244-246: the handler of the loop logs the exception of the iteration
\* and awaits sleep(5).
ProcessingFailed == "backoff"

\* The rest of process_video once ffprobe has ended: _extract_metadata,
\* _analyze_faces and _save_results have no further await, so they are one
\* step.  The outcome is a result (then task_done and the next iteration), or
\* an exception (probe exit code, no video stream, video cannot be opened)
\* that reaches the loop's handler, which logs it and awaits sleep(5).
ConsumerProcess(t) ==
  /\ cPc[t] = "process"
  /\ \E outcome \in {"ok", "probe_failed", "analysis_failed"} :
       IF outcome = "ok"
         THEN /\ results' = SaveResults(results, cVideo[t], ConsumerOutputDir)
              /\ processed' = processed \cup {cVideo[t]}
              /\ unfinished_tasks' = unfinished_tasks - 1
              /\ cPc' = [cPc EXCEPT ![t] = ConsumerIterate]
              /\ UNCHANGED failed
         ELSE /\ failed' = failed \cup {cVideo[t]}
              /\ cPc' = [cPc EXCEPT ![t] = ProcessingFailed]
              /\ UNCHANGED <<results, processed, unfinished_tasks>>
  /\ cVideo' = [cVideo EXCEPT ![t] = NoPath]
  /\ UNCHANGED <<mainPc, is_processing, processing_queue, wPc, wSeen, wSeenOld,
                 wTodo, wFile, wSize, fs, enqLog, startLog>>
  /\ UNCHANGED <<galVars, stoVars, vidVars>>

\* The handler's asyncio.sleep(5) ends; the loop goes on.
ConsumerBackoff(t) ==
  /\ cPc[t] = "backoff"
  /\ cPc' = [cPc EXCEPT ![t] = ConsumerIterate]
  /\ UNCHANGED <<mainPc, is_processing, processing_queue, unfinished_tasks,
                 cVideo, wPc, wSeen, wSeenOld, wTodo, wFile, wSize, fs, results,
                 enqLog, startLog, processed, failed>>
  /\ UNCHANGED <<galVars, stoVars, vidVars>>

(***************************************************************************)
(* _monitor_video_directory: the directory watcher.  A task is "start"     *)
(* when created and not yet run, then at one of its awaits: "check" (the   *)
(* sleep(2) of _is_file_complete), "sleep" (sleep(monitor_interval)),      *)
(* "backoff" (the handler's sleep(30)); "exited" once the loop is left.    *)
(***************************************************************************)
\* Lines 267-271: the filter on an entry of the listing.
IsCandidate(f, seen) ==
  /\ f \in DOMAIN fs
  /\ Suffix(f) \in video_extensions
  /\ f \notin seen

\* Lines 281-283: processed_files is cleared when it holds more than SeenCap
\* paths.  seen: the paths of Paths in it; old: the number of other paths.
SeenOverCap(seen, old) == Cardinality(seen) + old > SeenCap

\* As WatcherFailed, but without the handler: the exception ends the task.
WatcherFailureEndsLoop == "exited"

\* Lines 287-289: the handler of the loop logs the exception of the iteration
\* and awaits sleep(30).
WatcherFailed == "backoff"

\* The for loop over the listing, from the entries `todo` still to visit up to
\* the task's next await.  Entries come in the order the file system yields
\* them and those the filter rejects are passed over.  A candidate enters
\* _is_file_complete (first size read, sleep 2).  With no candidate left the
\* scan ends: processed_files is cleared or kept, then sleep(monitor_interval).
\* At any entry the listing can raise (rglob or is_file on a directory that
\* is being changed): the handler of the loop takes over, the rest of the
\* listing and the clearing of processed_files are skipped.
WatcherAdvance(t, todo, seen, old) ==
  \/ \E f \in todo :
       /\ IsCandidate(f, seen)
       /\ wTodo' = [wTodo EXCEPT ![t] = todo \ {f}]
       /\ wFile' = [wFile EXCEPT ![t] = f]
       /\ wSize' = [wSize EXCEPT ![t] = fs[f]]
       /\ wSeen' = [wSeen EXCEPT ![t] = seen]
       /\ wSeenOld' = [wSeenOld EXCEPT ![t] = old]
       /\ wPc' = [wPc EXCEPT ![t] = "check"]
  \/ /\ \A f \in todo : ~IsCandidate(f, seen)
     /\ wTodo' = [wTodo EXCEPT ![t] = {}]
     /\ wFile' = [wFile EXCEPT ![t] = NoPath]
     /\ wSize' = [wSize EXCEPT ![t] = 0]
     /\ wSeen' = [wSeen EXCEPT ![t] = IF SeenOverCap(seen, old) THEN {} ELSE seen]
     /\ wSeenOld' = [wSeenOld EXCEPT ![t] = IF SeenOverCap(seen, old) THEN 0 ELSE old]
     /\ wPc' = [wPc EXCEPT ![t] = "sleep"]
  \/ /\ wTodo' = [wTodo EXCEPT ![t] = {}]
     /\ wFile' = [wFile EXCEPT ![t] = NoPath]
     /\ wSize' = [wSize EXCEPT ![t] = 0]
     /\ wSeen' = [wSeen EXCEPT ![t] = seen]
     /\ wSeenOld' = [wSeenOld EXCEPT ![t] = old]
     /\ wPc' = [wPc EXCEPT ![t] = WatcherFailed]

\* The task runs for the first time, or sleep(monitor_interval) or the
\* handler's sleep(30) has ended: `while self.is_processing:`, then
\* video_dir.rglob("*") lists the directory.
WatcherScan(t) ==
  /\ wPc[t] \in {"start", "sleep", "backoff"}
  /\ IF is_processing
       THEN WatcherAdvance(t, DOMAIN fs, wSeen[t], wSeenOld[t])
       ELSE /\ wPc' = [wPc EXCEPT ![t] = "exited"]
            /\ UNCHANGED <<wTodo, wFile, wSize, wSeen, wSeenOld>>
  /\ UNCHANGED <<mainPc, is_processing, processing_queue, unfinished_tasks, cPc,
                 cVideo, fs, results, enqLog, startLog, processed, failed>>
  /\ UNCHANGED <<galVars, stoVars, vidVars>>

\* As IsFileComplete, but without the comparison of the two sizes.
IsFileThere(f, initial_size, readable) == f \in DOMAIN fs

\* _is_file_complete after its sleep: the second size read and the comparison
\* (a failing stat gives False).  readable: stat() does not raise.
IsFileComplete(f, initial_size, readable) ==
  /\ readable
  /\ f \in DOMAIN fs
  /\ fs[f] = initial_size

\* Lines 273-275: a complete file is put on the queue and added to
\* processed_files; the for loop goes on.
CheckFile(t, readable) ==
  /\ wPc[t] = "check"
  /\ IF IsFileComplete(wFile[t], wSize[t], readable)
       THEN /\ processing_queue' = Append(processing_queue, wFile[t])
            /\ unfinished_tasks' = unfinished_tasks + 1
            /\ enqLog' = Append(enqLog, wFile[t])
            /\ WatcherAdvance(t, wTodo[t], wSeen[t] \cup {wFile[t]}, wSeenOld[t])
       ELSE /\ UNCHANGED <<processing_queue, unfinished_tasks, enqLog>>
            /\ WatcherAdvance(t, wTodo[t], wSeen[t], wSeenOld[t])
  /\ UNCHANGED <<mainPc, is_processing, cPc, cVideo, fs, results, startLog,
                 processed, failed>>
  /\ UNCHANGED <<galVars, stoVars, vidVars>>

WatcherCheck(t) == \E readable \in BOOLEAN : CheckFile(t, readable)

(***************************************************************************)
(* The camera side: recordings appear in the video directory and grow      *)
(* while they are being written.                                           *)
(***************************************************************************)
FileArrives(p) ==
  /\ p \notin DOMAIN fs
  /\ fs' = [q \in DOMAIN fs \cup {p} |-> IF q = p THEN 1 ELSE fs[q]]
  /\ UNCHANGED <<mainPc, is_processing, processing_queue, unfinished_tasks, cPc,
                 cVideo, wPc, wSeen, wSeenOld, wTodo, wFile, wSize, results,
                 enqLog, startLog, processed, failed>>
  /\ UNCHANGED <<galVars, stoVars, vidVars>>

\* Only the sizes the watcher stats are tracked: a file it filters out by
\* its suffix keeps the size it arrived with.
FileGrows(p) ==
  /\ p \in DOMAIN fs
  /\ Suffix(p) \in video_extensions
  /\ fs[p] < MaxSize
  /\ fs' = [fs EXCEPT ![p] = @ + 1]
  /\ UNCHANGED <<mainPc, is_processing, processing_queue, unfinished_tasks, cPc,
                 cVideo, wPc, wSeen, wSeenOld, wTodo, wFile, wSize, results,
                 enqLog, startLog, processed, failed>>
  /\ UNCHANGED <<galVars, stoVars, vidVars>>

(***************************************************************************)
(* FaceRecognitionEngine: the gallery.  Encodings are points with integer  *)
(* coordinates in tenths; thresholds and tolerances are in tenths too.     *)
(***************************************************************************)
\* Largest number of faces the model's galleries hold.
MaxFaces == 2

\* 1.0 in tenths (`confidence = 1 - distance`, face_recognition.py:294).
One == 10

Unknown == "Unknown"
NoDb == "None"
DbPaths == {"faces.pkl"}

Names == {"alice", "bob"}
GalleryEncodings == {<<0, 0>>, <<3, 4>>}
\* confidence_threshold is any float the caller passes (add_known_face does
\* not validate it): 0.5, 0.9 and 1.1.
Thresholds == {5, 9, 11}

\* The enrolment requests the gallery is driven with: (name, image,
\* confidence_threshold), an image being the encodings of the faces
\* face_locations finds in it, in the order it reports them.  They cover an image without a face, images with
\* one and with two faces, one name enrolled from two images, one image
\* enrolled under two names, and both thresholds.
AddRequests ==
  {<<"alice", <<>>, 5>>,
   <<"alice", <<<<0, 0>>>>, 5>>,
   <<"alice", <<<<3, 4>>, <<0, 0>>>>, 9>>,
   <<"bob", <<<<0, 0>>>>, 9>>,
   <<"bob", <<<<3, 4>>, <<0, 0>>>>, 5>>}

\* last_seen of a KnownFace that was never detected (face_data.py:54).
NeverSeen == "None"

\* KnownFace(name, encoding, confidence_threshold, ...), face_data.py:44-55,
\* with the defaults of last_seen and detection_count.
KnownFace(name, encoding, threshold) ==
  [name |-> name, encoding |-> encoding, confidence_threshold |-> threshold,
   last_seen |-> NeverSeen, detection_count |-> 0]

\* Content of a gallery file: none, bytes pickle cannot read, or the dict
\* save_face_database dumps.
AbsentFile == [kind |-> "absent", known_faces |-> <<>>, encodings |-> <<>>,
               names |-> <<>>]
CorruptFile == [kind |-> "corrupt", known_faces |-> <<>>, encodings |-> <<>>,
                names |-> <<>>]
GalleryFile(faces, encs, names) ==
  [kind |-> "gallery", known_faces |-> faces, encodings |-> encs,
   names |-> names]

\* How the last call on the engine ended: it returned `ret`, or it raised.
Call(op, ret) == [op |-> op, ret |-> ret, raised |-> FALSE]
Raised(op) == [op |-> op, ret |-> FALSE, raised |-> TRUE]
NoMatch == [query |-> <<0, 0>>, tolerance |-> 0, name |-> "none"]

\* FaceRecognitionEngine.__init__
EngineCreated ==
  /\ known_faces = <<>>
  /\ face_encodings = <<>>
  /\ face_names = <<>>
  /\ model_path = NoDb
  /\ is_loaded = FALSE
  /\ disk = [d \in DbPaths |-> AbsentFile]
  /\ lastCall = Call("init", TRUE)
  /\ lastMatch = NoMatch

\* A new engine in a new process: the files stay as they are.
EngineRestarted ==
  /\ known_faces' = <<>>
  /\ face_encodings' = <<>>
  /\ face_names' = <<>>
  /\ model_path' = NoDb
  /\ is_loaded' = FALSE
  /\ lastCall' = Call("init", TRUE)
  /\ UNCHANGED <<disk, lastMatch>>
  /\ UNCHANGED <<pipeVars, stoVars, vidVars>>

\* What writing the gallery file can come to: done, or an OSError (the parent
\* directory cannot be created, the file cannot be opened for writing).
IoOutcomes == {"ok", "failed"}

\* save_face_database, lines 95-121: the file after the call.  Without a
\* model_path, or when the write fails, no file changes.
SavedDisk(files, path, faces, encs, names, io) ==
  IF path # NoDb /\ io = "ok"
    THEN [files EXCEPT ![path] = GalleryFile(faces, encs, names)]
    ELSE files

\* save_face_database: its return value (every exception is caught).
SaveReturns(path, io) == path # NoDb /\ io = "ok"

SaveFaceDatabase(io) ==
  /\ disk' = SavedDisk(disk, model_path, known_faces, face_encodings,
                       face_names, io)
  /\ lastCall' = Call("save", SaveReturns(model_path, io))
  /\ UNCHANGED <<known_faces, face_encodings, face_names, model_path,
                 is_loaded, lastMatch>>
  /\ UNCHANGED <<pipeVars, stoVars, vidVars>>

\* As LoadedFaces, but every record gets the default confidence_threshold
\* of KnownFace, 0.6.
LoadedFacesDefaultThreshold(file) ==
  [i \in DOMAIN file.known_faces |->
     [file.known_faces[i] EXCEPT !.confidence_threshold = 6]]

\* Lines 70-72: the three lists load takes from the unpickled dict.
LoadedFaces(file) == file.known_faces
LoadedEncodings(file) == file.encodings
LoadedNames(file) == file.names

\* As LoadFailure, but the exception leaves load_face_database.
LoadEscalates == Raised("load")

\* Lines 84-86: the handler of load_face_database logs and returns False.
LoadFailure == Call("load", FALSE)

\* load_face_database(database_path), lines 53-86, with
\* _create_new_database, lines 445-466, for a path that has no file: there
\* the mkdir of line 456 raises to load's handler when it fails (mkdir_ok),
\* while a failing save is swallowed by save_face_database.
LoadFaceDatabase(path, mkdir_ok, io) ==
  /\ model_path' = path
  /\ CASE disk[path].kind = "absent" ->
            /\ known_faces' = <<>>
            /\ face_encodings' = <<>>
            /\ face_names' = <<>>
            /\ IF ~mkdir_ok
                 THEN /\ UNCHANGED <<disk, is_loaded>>
                      /\ lastCall' = LoadFailure
                 ELSE /\ disk' = SavedDisk(disk, path, <<>>, <<>>, <<>>, io)
                      /\ is_loaded' = TRUE
                      /\ lastCall' = Call("load", TRUE)
       [] disk[path].kind = "corrupt" ->
            /\ UNCHANGED <<known_faces, face_encodings, face_names, disk,
                           is_loaded>>
            /\ lastCall' = LoadFailure
       [] disk[path].kind = "gallery" ->
            /\ known_faces' = LoadedFaces(disk[path])
            /\ face_encodings' = LoadedEncodings(disk[path])
            /\ face_names' = LoadedNames(disk[path])
            /\ is_loaded' = TRUE
            /\ lastCall' = Call("load", TRUE)
            /\ UNCHANGED disk
  /\ UNCHANGED lastMatch
  /\ UNCHANGED <<pipeVars, stoVars, vidVars>>

\* As AddedNames, but without the append to face_names.
NamesNotAppended(names, name) == names

\* Lines 171-174: the three appends of add_known_face.
AddedFaces(faces, name, encoding, threshold) ==
  Append(faces, KnownFace(name, encoding, threshold))
AddedEncodings(encs, encoding) == Append(encs, encoding)
AddedNames(names, name) == Append(names, name)

\* As FirstFace, but the face detected last.
LastFace(image) == image[Len(image)]

\* Line 159: the encoding of face_locations[0].
FirstFace(image) == image[1]

\* add_known_face(name, image_path, confidence_threshold), lines 142-184.
AddKnownFace(name, image, threshold, io) ==
  /\ Len(known_faces) < MaxFaces
  /\ IF image = <<>>
       THEN /\ lastCall' = Call("add", FALSE)
            /\ UNCHANGED <<known_faces, face_encodings, face_names, disk>>
       ELSE /\ known_faces' = AddedFaces(known_faces, name, FirstFace(image),
                                         threshold)
            /\ face_encodings' = AddedEncodings(face_encodings,
                                                FirstFace(image))
            /\ face_names' = AddedNames(face_names, name)
            /\ disk' = SavedDisk(disk, model_path, known_faces',
                                 face_encodings', face_names', io)
            /\ lastCall' = Call("add", TRUE)
  /\ UNCHANGED <<model_path, is_loaded, lastMatch>>
  /\ UNCHANGED <<pipeVars, stoVars, vidVars>>

\* As Compacted, but only the first index where face_names holds `name`
\* is deleted.
CompactedFirst(lst, names, name) ==
  IF \E i \in DOMAIN names : names[i] = name
    THEN LET first == CHOOSE i \in DOMAIN names :
                        /\ names[i] = name
                        /\ \A j \in DOMAIN names : names[j] = name => j >= i
         IN SubSeq(lst, 1, first - 1) \o SubSeq(lst, first + 1, Len(lst))
    ELSE lst

\* Lines 200-210: the list `lst` without the entries at the indices where
\* face_names holds `name`.
RECURSIVE Compacted(_, _, _)
Compacted(lst, names, name) ==
  IF lst = <<>> \/ names = <<>>
    THEN lst
    ELSE IF Head(names) = name
           THEN Compacted(Tail(lst), Tail(names), name)
           ELSE <<Head(lst)>> \o Compacted(Tail(lst), Tail(names), name)

\* remove_known_face(name), lines 196-220.
RemoveKnownFace(name, io) ==
  /\ face_names' = Compacted(face_names, face_names, name)
  /\ face_encodings' = Compacted(face_encodings, face_names, name)
  /\ known_faces' = Compacted(known_faces, face_names, name)
  /\ disk' = SavedDisk(disk, model_path, known_faces', face_encodings',
                       face_names', io)
  /\ lastCall' = Call("remove", TRUE)
  /\ UNCHANGED <<model_path, is_loaded, lastMatch>>
  /\ UNCHANGED <<pipeVars, stoVars, vidVars>>

\* The gallery file is damaged outside the engine (a torn or foreign file).
FileCorrupted(path) ==
  /\ disk[path].kind = "gallery"
  /\ disk' = [disk EXCEPT ![path] = CorruptFile]
  /\ UNCHANGED <<known_faces, face_encodings, face_names, model_path,
                 is_loaded, lastCall, lastMatch>>
  /\ UNCHANGED <<pipeVars, stoVars, vidVars>>

PipelineIdle == InitFresh

GalleryInit == PipelineIdle /\ EngineCreated /\ StorageCreated /\ NoDirectCalls

\* The processor, the engine and the storage manager after construction,
\* none of them started or called.
ServicesCreated == GalleryInit

GalleryNext ==
  \/ \E path \in DbPaths, mkdir_ok \in BOOLEAN, io \in IoOutcomes :
       LoadFaceDatabase(path, mkdir_ok, io)
  \/ \E io \in IoOutcomes : SaveFaceDatabase(io)
  \/ \E r \in AddRequests, io \in IoOutcomes :
       AddKnownFace(r[1], r[2], r[3], io)
  \/ \E name \in Names, io \in IoOutcomes : RemoveKnownFace(name, io)
  \/ \E path \in DbPaths : FileCorrupted(path)
  \/ EngineRestarted

GallerySpec == GalleryInit /\ [][GalleryNext]_vars

(***************************************************************************)
(* FaceRecognitionEngine.validate_database.                                *)
(***************************************************************************)
\* A stored encoding that is None, and the encodings a gallery file can hold:
\* a vector, an empty array, None.
MissingEncoding == <<NoEncoding>>
StoredEncodings == {<<0, 0>>, <<>>, MissingEncoding}

\* Line 436: `encoding is None or len(encoding) == 0`.
IsInvalidEncoding(encoding) == encoding = MissingEncoding \/ Len(encoding) = 0

\* Lines 417-423: is_valid is cleared by the two length tests only.
IsValid(faces, encs, names) ==
  /\ Len(faces) = Len(encs)
  /\ Len(encs) = Len(names)

\* Lines 417-423 and 435-437: the error list, in the order of the appends
\* (indices as enumerate gives them, from 0).
ValidationErrors(faces, encs, names) ==
  (IF Len(faces) # Len(encs) THEN << <<"Face count mismatch">> >> ELSE <<>>)
  \o (IF Len(encs) # Len(names) THEN << <<"Name count mismatch">> >> ELSE <<>>)
  \o LET bad == SelectSeq([i \in DOMAIN encs |-> i],
                          LAMBDA i : IsInvalidEncoding(encs[i]))
     IN [k \in DOMAIN bad |-> <<"Invalid encoding at index", bad[k] - 1>>]

\* Lines 426-432: one warning for every name that occurs more than once, in
\* the order of the names' first occurrences.
ValidationWarnings(names) ==
  LET dup == SelectSeq([i \in DOMAIN names |-> i],
                       LAMBDA i : /\ \A j \in 1..(i - 1) : names[j] # names[i]
                                  /\ \E j \in (i + 1)..Len(names) :
                                       names[j] = names[i])
  IN [k \in DOMAIN dup |-> <<"Multiple encodings for", names[dup[k]]>>]

\* validate_database(), lines 409-439: the dict it returns.
ValidateDatabase ==
  /\ lastCall' = Call("validate",
                      [is_valid |-> IsValid(known_faces, face_encodings,
                                            face_names),
                       errors |-> ValidationErrors(known_faces, face_encodings,
                                                   face_names),
                       warnings |-> ValidationWarnings(face_names)])
  /\ UNCHANGED <<known_faces, face_encodings, face_names, model_path,
                 is_loaded, disk, lastMatch>>
  /\ UNCHANGED <<pipeVars, stoVars, vidVars>>

\* An engine that has loaded a gallery file: load takes the three lists from
\* the unpickled dict as they are (lines 70-72), of any lengths.
ValidateInit ==
  /\ PipelineIdle
  /\ StorageCreated
  /\ NoDirectCalls
  /\ \E faces \in UNION {[1..k -> {KnownFace("alice", <<0, 0>>, 5)}] :
                            k \in 0..MaxFaces},
        encs \in UNION {[1..k -> StoredEncodings] : k \in 0..MaxFaces},
        names \in UNION {[1..k -> Names] : k \in 0..MaxFaces} :
       /\ known_faces = faces
       /\ face_encodings = encs
       /\ face_names = names
       /\ disk = [d \in DbPaths |-> GalleryFile(faces, encs, names)]
  /\ is_loaded = TRUE
  /\ model_path = "faces.pkl"
  /\ lastCall = Call("load", TRUE)
  /\ lastMatch = NoMatch

ValidateSpec == ValidateInit /\ [][ValidateDatabase]_vars

(***************************************************************************)
(* FaceRecognitionEngine.recognize_face: the matcher.                      *)
(***************************************************************************)
Queries == {<<0, 0>>, <<3, 4>>, <<0, 5>>, <<9, 9>>}
Tolerances == {-1, 3, 5, 6}

\* face_recognition.face_distance: the Euclidean distance of two encodings,
\* kept as its square (in tenths squared).
FaceDistanceSq(a, b) ==
  (a[1] - b[1]) * (a[1] - b[1]) + (a[2] - b[2]) * (a[2] - b[2])

\* distance <= k, for a distance given by its square.
DistanceAtMost(dsq, k) == k >= 0 /\ dsq <= k * k

\* As CompareFaces, but every entry counts as within the tolerance.
CompareFacesAll(encs, q, tolerance) == [i \in DOMAIN encs |-> TRUE]

\* face_recognition.compare_faces(encodings, q, tolerance):
\* list(face_distance(encodings, q) <= tolerance).
CompareFaces(encs, q, tolerance) ==
  [i \in DOMAIN encs |-> DistanceAtMost(FaceDistanceSq(encs[i], q), tolerance)]

\* face_recognition.face_distance(encodings, q)
FaceDistances(encs, q) == [i \in DOMAIN encs |-> FaceDistanceSq(encs[i], q)]

\* As ArgMin, but the last index that holds the minimum.
ArgMinLast(ds) ==
  CHOOSE i \in DOMAIN ds :
    /\ \A j \in DOMAIN ds : ds[i] <= ds[j]
    /\ \A j \in DOMAIN ds : j > i => ds[i] < ds[j]

\* np.argmin: the first index that holds the minimum.
ArgMin(ds) ==
  CHOOSE i \in DOMAIN ds :
    /\ \A j \in DOMAIN ds : ds[i] <= ds[j]
    /\ \A j \in DOMAIN ds : j < i => ds[i] < ds[j]

\* As ConfidenceMeets, but with `confidence > threshold`.
ConfidenceExceeds(dsq, threshold) ==
  /\ One - threshold > 0
  /\ dsq < (One - threshold) * (One - threshold)

\* Lines 294-297: confidence = 1 - distance; confidence >= threshold, that is
\* distance <= 1 - threshold.
ConfidenceMeets(dsq, threshold) == DistanceAtMost(dsq, One - threshold)

\* As GalleryUnusable, but without the test of the loaded flag.
GalleryEmpty(loaded, encs) == encs = <<>>

\* Line 277: `not self.is_loaded or not self.face_encodings`.
GalleryUnusable(loaded, encs) == ~loaded \/ encs = <<>>

\* recognize_face(face_encoding, tolerance), lines 276-304: the name returned.
\* An index outside known_faces raises, and the handler returns "Unknown".
RecognizedName(q, tolerance) ==
  IF GalleryUnusable(is_loaded, face_encodings)
    THEN Unknown
    ELSE LET matches == CompareFaces(face_encodings, q, tolerance)
         IN IF \E i \in DOMAIN matches : matches[i]
              THEN LET face_distances == FaceDistances(face_encodings, q)
                       best_match_index == ArgMin(face_distances)
                   IN IF /\ matches[best_match_index]
                         /\ best_match_index \in DOMAIN known_faces
                         /\ ConfidenceMeets(
                              face_distances[best_match_index],
                              known_faces[best_match_index].confidence_threshold)
                        THEN known_faces[best_match_index].name
                        ELSE Unknown
              ELSE Unknown

RecognizeFace(q, tolerance) ==
  /\ lastMatch' = [query |-> q, tolerance |-> tolerance,
                   name |-> RecognizedName(q, tolerance)]
  /\ UNCHANGED <<known_faces, face_encodings, face_names, model_path,
                 is_loaded, disk, lastCall>>
  /\ UNCHANGED <<pipeVars, stoVars, vidVars>>

\* The galleries of at most MaxFaces entries that add_known_face builds.
AllFaces ==
  {KnownFace(n, e, c) : n \in Names, e \in GalleryEncodings, c \in Thresholds}
Galleries == UNION {[1..k -> AllFaces] : k \in 0..MaxFaces}

\* An engine holding a gallery built by add_known_face: after a load (the
\* file then holds what the last add saved), or without any load.
MatchInit ==
  /\ PipelineIdle
  /\ StorageCreated
  /\ NoDirectCalls
  /\ \E faces \in Galleries, loaded \in BOOLEAN :
       /\ known_faces = faces
       /\ face_encodings = [i \in DOMAIN faces |-> faces[i].encoding]
       /\ face_names = [i \in DOMAIN faces |-> faces[i].name]
       /\ is_loaded = loaded
       /\ model_path = IF loaded THEN "faces.pkl" ELSE NoDb
       /\ disk = [d \in DbPaths |->
                    IF loaded
                      THEN GalleryFile(faces,
                             [i \in DOMAIN faces |-> faces[i].encoding],
                             [i \in DOMAIN faces |-> faces[i].name])
                      ELSE AbsentFile]
       /\ lastCall = Call(IF faces # <<>> THEN "add"
                          ELSE IF loaded THEN "load" ELSE "init", TRUE)
  /\ lastMatch = NoMatch

MatchNext ==
  \E q \in Queries, tolerance \in Tolerances : RecognizeFace(q, tolerance)

MatchSpec == MatchInit /\ [][MatchNext]_vars

(***************************************************************************)
(* StorageManager.cleanup_old_files.                                       *)
(***************************************************************************)
\* What can go wrong with one file of a sweep: nothing, stat() raises,
\* unlink() raises.
Faults == {"stat", "unlink"}
NoFaults == [p \in StoragePaths |-> "none"]
\* The sweeps that are driven: no file fails, or one file does.
FaultMaps ==
  {NoFaults} \cup {[NoFaults EXCEPT ![p] = k] : p \in StoragePaths, k \in Faults}

\* As IsOld, but a file at the cutoff counts as old.
IsOldOrAtCutoff(file_date, cutoff_date) == file_date <= cutoff_date

\* Line 448: `file_date < cutoff_date`.
IsOld(file_date, cutoff_date) == file_date < cutoff_date

\* Lines 431-437: the results of a sweep that has seen no file.
EmptyResults ==
  [files_processed |-> 0, files_deleted |-> 0, bytes_freed |-> 0,
   errors |-> {}, deleted_files |-> {}]

\* Lines 450-452 and 456-458: one file counted as deleted.
CountDeleted(res, file_path) ==
  [res EXCEPT !.files_deleted = @ + 1,
                  !.bytes_freed = @ + SizeOf(file_path),
                  !.deleted_files = @ \cup {file_path}]

\* As RecordError, but the file that raised is counted as deleted.
ErrorCountedAsDeleted(res, file_path) == CountDeleted(res, file_path)

\* Lines 462-465: the handler of one file.
RecordError(res, file_path) ==
  [res EXCEPT !.errors = @ \cup {file_path}]

\* As Unlinks, but a dry run unlinks as a real run does.
UnlinksAlways(dry_run) == TRUE

\* Lines 449-455: unlink is called in a real run only.
Unlinks(dry_run) == ~dry_run

\* As CleanupFile, but a dry run counts no file as deleted.
CleanupFileDryUncounted(res, files, file_path, cutoff_date, dry_run, fault) ==
  LET counted == [res EXCEPT !.files_processed = @ + 1]
  IN IF fault = "stat"
       THEN RecordError(counted, file_path)
       ELSE IF IsOld(files[file_path], cutoff_date) /\ ~dry_run
              THEN IF fault = "unlink"
                     THEN RecordError(counted, file_path)
                     ELSE CountDeleted(counted, file_path)
              ELSE counted

\* Lines 441-465, the body of the loop for one file: the results after it.
CleanupFile(res, files, file_path, cutoff_date, dry_run, fault) ==
  LET counted == [res EXCEPT !.files_processed = @ + 1]
  IN IF fault = "stat"
       THEN RecordError(counted, file_path)
       ELSE IF IsOld(files[file_path], cutoff_date)
              THEN IF Unlinks(dry_run) /\ fault = "unlink"
                     THEN RecordError(counted, file_path)
                     ELSE CountDeleted(counted, file_path)
              ELSE counted

\* As Unlinked, but no file is ever unlinked.
UnlinkedNever(files, file_path, cutoff_date, dry_run, fault) == FALSE

\* Line 455: whether the loop body unlinks the file.
Unlinked(files, file_path, cutoff_date, dry_run, fault) ==
  /\ fault = "none"
  /\ IsOld(files[file_path], cutoff_date)
  /\ Unlinks(dry_run)

\* _cleanup_directory(directory, cutoff_date, dry_run), lines 429-473: the
\* results of the sweep over the files `todo` of the directory.
RECURSIVE CleanupDirectory(_, _, _, _, _, _)
CleanupDirectory(res, files, todo, cutoff_date, dry_run, faults) ==
  IF todo = {}
    THEN res
    ELSE LET file_path == CHOOSE p \in todo : TRUE
         IN CleanupDirectory(
              CleanupFile(res, files, file_path, cutoff_date, dry_run,
                          faults[file_path]),
              files, todo \ {file_path}, cutoff_date, dry_run, faults)

\* directory.rglob("*") over an existing directory (lines 115, 127, 440).
Listing(files, dirs, directory) ==
  IF directory \in dirs
    THEN {p \in DOMAIN files : DirOf(p) = directory}
    ELSE {}

\* Lines 119-123 and 131-135: the sum of the two sweeps.
MergedResults(a, b) ==
  [files_processed |-> a.files_processed + b.files_processed,
   files_deleted |-> a.files_deleted + b.files_deleted,
   bytes_freed |-> a.bytes_freed + b.bytes_freed,
   errors |-> a.errors \cup b.errors,
   deleted_files |-> a.deleted_files \cup b.deleted_files]

\* cleanup_old_files(dry_run), lines 99-145: the results it returns.
CleanupResults(files, dirs, today, dry_run, faults) ==
  LET cutoff_date == today - RetentionDays
      video_results ==
        CleanupDirectory(EmptyResults, files, Listing(files, dirs, VideoDir),
                         cutoff_date, dry_run, faults)
      result_results ==
        CleanupDirectory(EmptyResults, files,
                         Listing(files, dirs, ResultsDirectory),
                         cutoff_date, dry_run, faults)
  IN MergedResults(video_results, result_results)

\* cleanup_old_files(dry_run): the files left in the two directories.
FilesAfterCleanup(files, dirs, today, dry_run, faults) ==
  LET gone == {p \in Listing(files, dirs, VideoDir)
                      \cup Listing(files, dirs, ResultsDirectory) :
                 Unlinked(files, p, today - RetentionDays, dry_run, faults[p])}
  IN [p \in DOMAIN files \ gone |-> files[p]]

\* What the caller holds after cleanup_old_files(dry_run) returned.
CleanupCall(res, dry_run, today, previous) ==
  [called |-> TRUE, dry_run |-> dry_run, day |-> today, undisturbed |-> TRUE,
   prior_deleted |->
     IF ~dry_run /\ previous.called /\ ~previous.dry_run
        /\ previous.undisturbed
       THEN previous.files_deleted
       ELSE -1,
   files_processed |-> res.files_processed,
   files_deleted |-> res.files_deleted,
   bytes_freed |-> res.bytes_freed,
   errors |-> res.errors,
   deleted_files |-> res.deleted_files]

\* A call of cleanup_old_files(dry_run) by the operator.
CleanupOldFiles(dry_run, faults) ==
  /\ sfiles' = FilesAfterCleanup(sfiles, sdirs, now, dry_run, faults)
  /\ lastCleanup' = CleanupCall(
                       CleanupResults(sfiles, sdirs, now, dry_run, faults),
                       dry_run, now, lastCleanup)
  /\ UNCHANGED <<is_monitoring, mPc, mLast, sdirs, now>>
  /\ UNCHANGED <<pipeVars, galVars, vidVars>>

\* A storage directory is created (setup, or the watcher's mkdir).
DirectoryCreated(d) ==
  /\ d \notin sdirs
  /\ sdirs' = sdirs \cup {d}
  /\ UNCHANGED <<is_monitoring, mPc, mLast, sfiles, now, lastCleanup>>
  /\ UNCHANGED <<pipeVars, galVars, vidVars>>

\* A file with modification day mtime appears in a storage directory.
StorageFileArrives(p, mtime) ==
  /\ DirOf(p) \in sdirs
  /\ p \notin DOMAIN sfiles
  /\ sfiles' = [q \in DOMAIN sfiles \cup {p} |->
                 IF q = p THEN mtime ELSE sfiles[q]]
  /\ lastCleanup' = [lastCleanup EXCEPT !.undisturbed = FALSE]
  /\ UNCHANGED <<is_monitoring, mPc, mLast, sdirs, now>>
  /\ UNCHANGED <<pipeVars, galVars, vidVars>>

\* A day passes.
Tick ==
  /\ now < StartDay + MaxTicks
  /\ now' = now + 1
  /\ UNCHANGED <<is_monitoring, mPc, mLast, sdirs, sfiles, lastCleanup>>
  /\ UNCHANGED <<pipeVars, galVars, vidVars>>

CleanupNext ==
  \/ \E dry_run \in BOOLEAN, faults \in FaultMaps :
       CleanupOldFiles(dry_run, faults)
  \/ \E d \in Dirs : DirectoryCreated(d)
  \/ \E p \in StoragePaths, mtime \in MTimes : StorageFileArrives(p, mtime)
  \/ Tick

CleanupSpec == ServicesCreated /\ [][CleanupNext]_vars

(***************************************************************************)
(* StorageManager: the monitoring loop.                                    *)
(***************************************************************************)
\* The usage percents psutil.disk_usage reports: below, at and above the
\* threshold.
Usages == {CleanupThreshold - 1, CleanupThreshold, CleanupThreshold + 1}

\* start_storage_monitoring (lines 34-42), called once by the operator.
StartStorageMonitoring ==
  /\ mPc = "none"
  /\ is_monitoring' = TRUE
  /\ mPc' = "start"
  /\ UNCHANGED <<mLast, sdirs, sfiles, now, lastCleanup>>
  /\ UNCHANGED <<pipeVars, galVars, vidVars>>

\* stop_storage_monitoring (lines 44-47).
StopStorageMonitoring ==
  /\ is_monitoring
  /\ is_monitoring' = FALSE
  /\ UNCHANGED <<mPc, mLast, sdirs, sfiles, now, lastCleanup>>
  /\ UNCHANGED <<pipeVars, galVars, vidVars>>

\* get_storage_statistics, lines 56-68 and 85-87: whether the statistics
\* carry video_directory.usage_percent (the test of line 280).
HasUsage(stats_ok, dirs) == stats_ok /\ VideoDir \in dirs

\* As OverThreshold, but usage at the threshold counts as over it.
AtOrOverThreshold(usage_percent) == usage_percent >= CleanupThreshold

\* Line 283: `usage_percent > self.settings.storage.cleanup_threshold`.
OverThreshold(usage_percent) == usage_percent > CleanupThreshold

\* Line 291: the dry_run argument of the triggered cleanup.
MonitorDryRun == FALSE

\* Lines 294 and 298: the seconds slept after an iteration.
AfterError(raised) == IF raised THEN ErrorBackoff ELSE MonitorInterval

\* As MonitorAfter, but without the handler: the exception ends the task.
MonitorEndsOnError(raised) == IF raised THEN "exited" ELSE "sleep"

\* Where the task awaits after an iteration: sleep(monitor_interval) of line
\* 294, or the handler's sleep(60) of line 298.
MonitorAfter(raised) == IF raised THEN "backoff" ELSE "sleep"

\* One iteration of `while self.is_monitoring` (lines 274-298), from the test
\* of the flag to the sleep. stats_ok: exists() and disk_usage() did not
\* raise inside get_storage_statistics; usage: the percent disk_usage
\* reports; raises: the threshold test of line 283 raises (a threshold that
\* is not a number); faults: what fails in the triggered cleanup.
MonitorIteration(stats_ok, usage, raises, faults) ==
  /\ mPc \in {"start", "sleep", "backoff"}
  /\ IF ~is_monitoring
       THEN /\ mPc' = "exited"
            /\ UNCHANGED <<mLast, sfiles, lastCleanup>>
       ELSE LET has_usage == HasUsage(stats_ok, sdirs)
                raised == has_usage /\ raises
                cleaned == has_usage /\ ~raises /\ OverThreshold(usage)
            IN /\ mPc' = MonitorAfter(raised)
               /\ mLast' = [ran |-> TRUE,
                            usage |-> IF has_usage THEN usage ELSE -1,
                            stats_error |-> ~stats_ok,
                            failed |-> raised,
                            cleaned |-> cleaned,
                            dry_run |-> cleaned /\ MonitorDryRun,
                            wait |-> AfterError(raised)]
               /\ sfiles' = IF cleaned
                              THEN FilesAfterCleanup(sfiles, sdirs, now,
                                                     MonitorDryRun, faults)
                              ELSE sfiles
               /\ lastCleanup' =
                    IF cleaned
                      THEN CleanupCall(
                             CleanupResults(sfiles, sdirs, now, MonitorDryRun,
                                            faults),
                             MonitorDryRun, now, lastCleanup)
                      ELSE lastCleanup
  /\ UNCHANGED <<is_monitoring, sdirs, now>>

\* The iteration in a service whose watched recordings are not among the
\* files of the storage directories.
MonitorIterate(stats_ok, usage, raises, faults) ==
  /\ MonitorIteration(stats_ok, usage, raises, faults)
  /\ UNCHANGED <<pipeVars, galVars, vidVars>>

MonitorNext ==
  \/ StartStorageMonitoring
  \/ StopStorageMonitoring
  \/ \E stats_ok \in BOOLEAN, usage \in Usages, raises \in BOOLEAN,
        faults \in FaultMaps :
       MonitorIterate(stats_ok, usage, raises, faults)
  \/ \E d \in Dirs : DirectoryCreated(d)
  \/ \E mtime \in MTimes : StorageFileArrives("videos/a.mp4", mtime)

MonitorSpec == ServicesCreated /\ [][MonitorNext]_vars

(***************************************************************************)
(* The processing service.                                                 *)
(***************************************************************************)
Init == (InitFresh \/ InitLongRunning) /\ EngineCreated /\ StorageCreated /\ NoDirectCalls

ConsumerStep(t) ==
  \/ ConsumerStart(t)
  \/ ConsumerGet(t)
  \/ ConsumerTimeout(t)
  \/ ConsumerProcess(t)
  \/ ConsumerBackoff(t)

WatcherStep(t) ==
  \/ WatcherScan(t)
  \/ WatcherCheck(t)

Next ==
  \/ StartProcessing
  \/ StopProcessing
  \/ StopPoll
  \/ \E t \in TaskIds : ConsumerStep(t)
  \/ \E t \in TaskIds : WatcherStep(t)
  \/ \E p \in Paths : FileArrives(p)
  \/ \E p \in Paths : FileGrows(p)


Spec == Init /\ [][Next]_vars

\* The event loop runs every task that is ready: each loop task and the
\* sleeping caller of stop_processing take their steps.  Nothing obliges the
\* camera to write files or the operator to stop the service.
Fairness ==
  /\ \A t \in TaskIds : WF_vars(ConsumerStep(t))
  /\ \A t \in TaskIds : WF_vars(WatcherStep(t))
  /\ WF_vars(StopPoll)

FairSpec == Init /\ [][Next]_vars /\ Fairness

(***************************************************************************)
(* The three background loops side by side: the processing service and the *)
(* storage monitor on one event loop, each started once and stopped once,  *)
(* with one recording arriving in the watched directory.                   *)
(***************************************************************************)
LoopsNext ==
  \/ StartProcessing
  \/ StopProcessing
  \/ StopPoll
  \/ \E t \in TaskIds : ConsumerStep(t)
  \/ \E t \in TaskIds : WatcherStep(t)
  \/ FileArrives("a.mp4")
  \/ StartStorageMonitoring
  \/ StopStorageMonitoring
  \/ \E stats_ok \in BOOLEAN, usage \in Usages, raises \in BOOLEAN :
       MonitorIterate(stats_ok, usage, raises, NoFaults)
  \/ DirectoryCreated(VideoDir)

\* The event loop runs every task that is ready; nothing obliges the camera
\* to write files or the operator to start or stop a service.
LoopsFairness ==
  /\ Fairness
  /\ WF_vars(\E stats_ok \in BOOLEAN, usage \in Usages, raises \in BOOLEAN :
               MonitorIterate(stats_ok, usage, raises, NoFaults))

LoopsSpec == ServicesCreated /\ [][LoopsNext]_vars /\ LoopsFairness

(***************************************************************************)
(* The processing service under any sequence of start and stop calls.      *)
(***************************************************************************)
\* The loop tasks that have been created and have not returned.
ActiveLoops(pcs) == {t \in TaskIds : pcs[t] \notin {"none", "exited"}}

LifecycleNext ==
  \/ StartProcessing
  \/ RestartProcessing
  \/ StopProcessing
  \/ StopPoll
  \/ \E t \in TaskIds : ConsumerStep(t)
  \/ \E t \in TaskIds : WatcherStep(t)
  \/ FileArrives("a.mp4")

LifecycleSpec == ServicesCreated /\ [][LifecycleNext]_vars

(***************************************************************************)
(* The watcher, the consumer and the storage monitor on one video          *)
(* directory: settings.storage.video_directory is both the directory the   *)
(* watcher lists (video_processor.py:253) and the first directory the      *)
(* cleanup sweeps (storage_manager.py:114).                                *)
(***************************************************************************)
\* The path of a watched recording as the storage manager lists it.
StoredPath(p) ==
  CASE p = "a.mp4" -> "videos/a.mp4"
    [] p = "b.mkv" -> "videos/b.mkv"

\* A recording appears in the video directory with modification day mtime
\* (a clip copied from the sync module keeps the day it was recorded).
RecordingArrives(p, mtime) ==
  /\ VideoDir \in sdirs
  /\ p \notin DOMAIN fs
  /\ fs' = [q \in DOMAIN fs \cup {p} |-> IF q = p THEN 1 ELSE fs[q]]
  /\ sfiles' = [q \in DOMAIN sfiles \cup {StoredPath(p)} |->
                 IF q = StoredPath(p) THEN mtime ELSE sfiles[q]]
  /\ lastCleanup' = [lastCleanup EXCEPT !.undisturbed = FALSE]
  /\ UNCHANGED <<is_monitoring, mPc, mLast, sdirs, now>>
  /\ UNCHANGED <<mainPc, is_processing, processing_queue, unfinished_tasks, cPc,
                 cVideo, wPc, wSeen, wSeenOld, wTodo, wFile, wSize, results,
                 enqLog, startLog, processed, failed>>
  /\ UNCHANGED <<galVars, vidVars>>

\* The monitor's iteration on the watched directory: a file the triggered
\* cleanup unlinks is gone for the watcher and the consumer as well.  The
\* cleanup reads neither the processing queue nor the consumer's state.
MonitorIterateShared(stats_ok, usage, raises, faults) ==
  /\ MonitorIteration(stats_ok, usage, raises, faults)
  /\ fs' = [p \in {q \in DOMAIN fs : StoredPath(q) \in DOMAIN sfiles'} |->
              fs[p]]
  /\ UNCHANGED <<mainPc, is_processing, processing_queue, unfinished_tasks, cPc,
                 cVideo, wPc, wSeen, wSeenOld, wTodo, wFile, wSize, results,
                 enqLog, startLog, processed, failed>>
  /\ UNCHANGED <<galVars, vidVars>>

SharedDirNext ==
  \/ StartProcessing
  \/ \E t \in TaskIds : ConsumerStep(t)
  \/ \E t \in TaskIds : WatcherStep(t)
  \/ DirectoryCreated(VideoDir)
  \/ \E mtime \in MTimes : RecordingArrives("a.mp4", mtime)
  \/ StartStorageMonitoring
  \/ \E stats_ok \in BOOLEAN, usage \in Usages, raises \in BOOLEAN :
       MonitorIterateShared(stats_ok, usage, raises, NoFaults)

SharedDirSpec == ServicesCreated /\ [][SharedDirNext]_vars

(***************************************************************************)
(* stitch_videos.                                                          *)
(***************************************************************************)
\* As TimeKey, but always the file modification time.
ModificationTimeKey(video_path, args) == args.mtime[video_path]

\* _sort_videos_by_time lines 407-413: metadata.created when the extraction
\* succeeds, st_mtime of the file when it raises.
TimeKey(video_path, args) ==
  IF args.probe[video_path] = "ok"
    THEN args.created[video_path]
    ELSE args.mtime[video_path]

\* Line 413 runs inside the handler: a stat() that raises there leaves
\* _sort_videos_by_time, and stitch_videos, with the exception.
SortRaises(args) ==
  \E i \in 1..Len(args.video_paths) :
    args.probe[args.video_paths[i]] = "missing"

\* Lines 404-413: the list of (video_path, time) pairs, in input order.
VideoTimes(args) ==
  [i \in 1..Len(args.video_paths) |->
     <<args.video_paths[i], TimeKey(args.video_paths[i], args)>>]

\* list.sort(key=lambda x: x[1]) is stable: a pair goes behind every pair
\* already placed whose time is not greater.
InsertByTime(sorted, pair) ==
  LET n == Cardinality({i \in 1..Len(sorted) : sorted[i][2] <= pair[2]})
  IN SubSeq(sorted, 1, n) \o <<pair>> \o SubSeq(sorted, n + 1, Len(sorted))

RECURSIVE SortByTime(_, _)
SortByTime(video_times, done) ==
  IF Len(done) = Len(video_times)
    THEN done
    ELSE SortByTime(video_times,
                    InsertByTime(done, video_times[Len(done) + 1]))

\* Lines 154 and 416-418: the videos in sorted order.
SortVideosByTime(args) ==
  LET sorted == SortByTime(VideoTimes(args), <<>>)
  IN [i \in 1..Len(sorted) |-> sorted[i][1]]

\* The exit codes of the ffmpeg subprocess that are driven.
ExitCodes == {0, 1}

\* stitch_videos (lines 150-187), called once on the drawn arguments: the
\* videos are sorted, file_list.txt is written in that order, ffmpeg runs,
\* and a non-zero exit code raises.
StitchVideos(returncode) ==
  /\ ~lastStitch.called
  /\ lastStitch' =
       IF SortRaises(stitchArgs)
         THEN [called |-> TRUE, written |-> FALSE, manifest |-> <<>>,
               raised |-> TRUE, returned |-> FALSE]
         ELSE [called |-> TRUE, written |-> TRUE,
               manifest |-> SortVideosByTime(stitchArgs),
               raised |-> returncode # 0, returned |-> returncode = 0]
  /\ UNCHANGED <<stitchArgs, footage, lastProcess>>
  /\ UNCHANGED <<pipeVars, galVars, stoVars>>

StitchInit ==
  /\ PipelineIdle /\ EngineCreated /\ StorageCreated
  /\ stitchArgs \in AllStitchArgs
  /\ lastStitch = NoStitch
  /\ footage = <<>>
  /\ lastProcess = NoProcess

StitchNext == \E returncode \in ExitCodes : StitchVideos(returncode)

StitchSpec == StitchInit /\ [][StitchNext]_vars

(***************************************************************************)
(* process_video called directly.                                          *)
(***************************************************************************)
\* The output_dir arguments and what ffprobe reports (_extract_metadata,
\* lines 304-319).
OutputDirs == {NoDir, "out"}
ProbeResults == {"ok", "exit_nonzero", "no_video_stream"}

\* As AnalysisStarted, but a failed extraction does not stop process_video.
AnalysisStartedAnyway(has_engine, probe) == has_engine

\* Lines 94-104: _analyze_faces is called once the engine is there and
\* _extract_metadata has returned.
AnalysisStarted(has_engine, probe) == has_engine /\ probe = "ok"

\* _analyze_faces lines 365-381: a detection is appended for every face that
\* has an encoding, with the name recognize_face returned.
Detections(faces) == SelectSeq(faces, LAMBDA f : f # NoEncoding)

\* As IsRecognized, but with the test `name != "Unknown"` alone.
IsNotUnknown(name) == name # Unknown

\* Line 383: `if name and name != "Unknown"`.
IsRecognized(name) == name # "" /\ name # Unknown

\* Lines 383-384: the detections that are also appended to recognized_faces.
RecognizedFaces(detections) == SelectSeq(detections, IsRecognized)

\* ProcessingResult.get_unknown_face_count (processing_result.py:81-83).
UnknownFaceCount(result) ==
  Len(result.face_detections) - Len(result.recognized_faces)

\* process_video(video_path, output_dir) (lines 91-131). has_engine: a face
\* engine is set; probe: what ffprobe reports; opened: cap.isOpened().
\* Every exception is logged and raised again (lines 129-131).
ProcessVideo(video_path, output_dir, has_engine, probe, opened) ==
  LET started == AnalysisStarted(has_engine, probe)
      ok == started /\ opened
  IN /\ results' = IF ok THEN SaveResults(results, video_path, output_dir)
                          ELSE results
     /\ lastProcess' =
          [called |-> TRUE, video |-> video_path,
           raised |-> ~ok, returned |-> ok,
           probe_runs |-> IF has_engine THEN 1 ELSE 0,
           analysis_started |-> started,
           open_runs |-> IF started THEN 1 ELSE 0,
           saved |-> ok /\ output_dir # NoDir,
           face_detections |-> IF ok THEN Detections(footage) ELSE <<>>,
           recognized_faces |->
             IF ok THEN RecognizedFaces(Detections(footage)) ELSE <<>>]
     /\ UNCHANGED <<mainPc, is_processing, processing_queue, unfinished_tasks,
                    cPc, cVideo, wPc, wSeen, wSeenOld, wTodo, wFile, wSize, fs,
                    enqLog, startLog, processed, failed>>
     /\ UNCHANGED <<stitchArgs, lastStitch, footage>>
     /\ UNCHANGED <<galVars, stoVars>>

ProcessNext ==
  \E video_path \in Paths, output_dir \in OutputDirs, has_engine \in BOOLEAN,
     probe \in ProbeResults, opened \in BOOLEAN :
    ProcessVideo(video_path, output_dir, has_engine, probe, opened)

\* The video handed to process_video shows any footage.
ProcessInit ==
  /\ PipelineIdle /\ EngineCreated /\ StorageCreated
  /\ stitchArgs = NoStitchArgs
  /\ lastStitch = NoStitch
  /\ footage \in UNION {[1..n -> FaceOutcomes] : n \in 0..MaxDetections}
  /\ lastProcess = NoProcess

ProcessSpec == ProcessInit /\ [][ProcessNext]_vars

\* process_video called on the recordings of a directory that also holds two
\* recordings named like a.mp4, one with another extension and one in a
\* subdirectory (rglob lists subdirectories too, line 266).
DirectPaths == Paths \cup {"a.mkv", "sub/a.mp4"}

ResultFilesNext ==
  \E video_path \in DirectPaths, output_dir \in OutputDirs,
     has_engine \in BOOLEAN, probe \in ProbeResults, opened \in BOOLEAN :
    ProcessVideo(video_path, output_dir, has_engine, probe, opened)

ResultFilesSpec == ServicesCreated /\ [][ResultFilesNext]_vars

(***************************************************************************)
(* Properties of the ingestion pipeline.                                   *)
(***************************************************************************)
InQueue(p) == \E i \in DOMAIN processing_queue : processing_queue[i] = p

Analyzing == {t \in TaskIds : cPc[t] = "process"}

\* C1: over a run of the watcher no path is put on the processing queue a
\* second time, even if the file is still present in every later scan.
C1_EnqueuedOnce ==
  \A i, j \in DOMAIN enqLog : i # j => enqLog[i] # enqLog[j]

\* C2: the consumer starts process_video on the videos in exactly the order
\* in which the watcher enqueued them: the sequence of started videos is a
\* prefix of the sequence of enqueued videos.
C2_Fifo ==
  /\ Len(startLog) <= Len(enqLog)
  /\ \A i \in DOMAIN startLog : startLog[i] = enqLog[i]

\* Two different videos were enqueued and both have been started.
C2_Witness ==
  /\ Len(startLog) >= 2
  /\ startLog[1] # startLog[2]

C4_StopReturns == (mainPc = "draining") ~> (mainPc = "stopped")

\* C5: once the running flag has been cleared by stop_processing, the watcher
\* enqueues no further video and the consumer begins no further analysis.
C5_NoNewWorkAfterStop ==
  [][(mainPc \in {"draining", "stopped"} /\ ~is_processing)
       => (enqLog' = enqLog /\ startLog' = startLog)]_vars

\* C6: when process_video fails in the consumer while the service is running,
\* the consumer loop does not terminate (it backs off and, the service still
\* running, waits on the queue again), the failed video is not put back on
\* the queue, and every video queued behind it is eventually dequeued and
\* its processing started, as long as the service is running.
C6_FailureIsolated ==
  /\ [][\A t \in TaskIds :
          /\ (cPc[t] # "exited" /\ cPc'[t] = "exited") => ~is_processing
          /\ (cPc[t] = "process" /\ cPc'[t] = "backoff")
               => /\ processing_queue' = processing_queue
                  /\ enqLog' = enqLog
          /\ (cPc[t] = "backoff" /\ is_processing /\ cPc'[t] # "backoff")
               => cPc'[t] = "get"]_vars
  /\ \A p \in Paths :
       ((\E t \in TaskIds : cPc[t] = "backoff") /\ is_processing /\ InQueue(p))
         ~> ((\E t \in TaskIds : cVideo[t] = p) \/ ~is_processing)

\* A consumer backs off after a failure while the service is running and a
\* video waits in the queue.
C6_Witness ==
  /\ \E t \in TaskIds : cPc[t] = "backoff"
  /\ failed # {}
  /\ is_processing
  /\ processing_queue # <<>>

\* C7: for every video the pipeline processed successfully, the result file
\* <video-stem>_results.json exists in the results directory.
C7_ResultPersisted ==
  \A p \in processed : ResultFileName(p) \in results

MatchDistSq(i) == FaceDistanceSq(face_encodings[i], lastMatch.query)
IsClosest(i) ==
  \A j \in DOMAIN face_encodings :
    \/ MatchDistSq(j) > MatchDistSq(i)
    \/ MatchDistSq(j) = MatchDistSq(i) /\ j >= i
WithinTolerance(i) ==
  /\ lastMatch.tolerance >= 0
  /\ MatchDistSq(i) <= lastMatch.tolerance * lastMatch.tolerance
PassesOwnThreshold(i) ==
  /\ One - known_faces[i].confidence_threshold >= 0
  /\ MatchDistSq(i) <= (One - known_faces[i].confidence_threshold)
                         * (One - known_faces[i].confidence_threshold)
Matched == lastMatch.name # "none"

\* C9: for a loaded, non-empty gallery, match returns the name of the closest
\* entry exactly when its distance d satisfies d <= tolerance and
\* 1 - d >= that entry's confidence_threshold, and "Unknown" otherwise.
C9_TwoStageGate ==
  (Matched /\ is_loaded /\ face_encodings # <<>>)
    => \A i \in DOMAIN face_encodings :
         IsClosest(i)
           => lastMatch.name =
                IF WithinTolerance(i) /\ PassesOwnThreshold(i)
                  THEN known_faces[i].name
                  ELSE Unknown

\* The closest entry fails its own threshold, another entry within tolerance
\* would pass its own, and the match is "Unknown".
C9_Witness ==
  /\ Matched /\ is_loaded
  /\ lastMatch.name = Unknown
  /\ \E i, j \in DOMAIN face_encodings :
       /\ IsClosest(i) /\ WithinTolerance(i) /\ ~PassesOwnThreshold(i)
       /\ j # i /\ WithinTolerance(j) /\ PassesOwnThreshold(j)

\* C10 as stated: for every encoding identical to the encoding of a stored
\* KnownFace, match returns that face's name.
C10_IdenticalReturnsName ==
  Matched
    => \A i \in DOMAIN known_faces :
         known_faces[i].encoding = lastMatch.query
           => lastMatch.name = known_faces[i].name

\* C10 amended: for a loaded gallery and a tolerance >= 0, a query identical
\* to a stored encoding returns the name of the first gallery entry that has
\* this encoding, provided that entry's confidence_threshold is at most 1.0.
C10_IdenticalReturnsFirst ==
  (Matched /\ is_loaded /\ lastMatch.tolerance >= 0)
    => \A i \in DOMAIN face_encodings :
         ( /\ face_encodings[i] = lastMatch.query
           /\ \A j \in DOMAIN face_encodings :
                j < i => face_encodings[j] # lastMatch.query
           /\ known_faces[i].confidence_threshold <= One )
           => lastMatch.name = known_faces[i].name

\* Two entries with different names hold the query's encoding; the match
\* returns the name of the first.
C10_Witness ==
  /\ Matched /\ is_loaded
  /\ \E i, j \in DOMAIN face_encodings :
       /\ i < j
       /\ face_encodings[i] = lastMatch.query
       /\ face_encodings[j] = lastMatch.query
       /\ known_faces[i].name # known_faces[j].name
       /\ \A k \in DOMAIN face_encodings :
            k < i => face_encodings[k] # lastMatch.query
       /\ lastMatch.name = known_faces[i].name

\* C11: a query whose distance to every gallery entry is greater than the
\* tolerance is answered "Unknown".
C11_FarReturnsUnknown ==
  (Matched /\ \A i \in DOMAIN face_encodings : ~WithinTolerance(i))
    => lastMatch.name = Unknown

\* Every entry of a loaded gallery is beyond the tolerance, the closest one
\* would pass its own threshold, and the match is "Unknown".
C11_Witness ==
  /\ Matched /\ is_loaded /\ face_encodings # <<>>
  /\ \A i \in DOMAIN face_encodings : ~WithinTolerance(i)
  /\ \E i \in DOMAIN face_encodings : IsClosest(i) /\ PassesOwnThreshold(i)
  /\ lastMatch.name = Unknown

\* C12: a gallery that has not been loaded, or holds no encodings, answers
\* "Unknown" to every query and every tolerance, also when faces were added
\* to it without a load.
C12_UnusableReturnsUnknown ==
  (Matched /\ (~is_loaded \/ face_encodings = <<>>))
    => lastMatch.name = Unknown

\* Faces were added to a gallery that was never loaded; a query identical to
\* one of them, within the tolerance and the entry's threshold, is answered
\* "Unknown".
C12_Witness ==
  /\ Matched /\ ~is_loaded
  /\ lastMatch.name = Unknown
  /\ \E i \in DOMAIN face_encodings :
       /\ face_encodings[i] = lastMatch.query
       /\ WithinTolerance(i) /\ PassesOwnThreshold(i)

\* C13: a match that returns a known name adds exactly one to the detection
\* count of the matched KnownFace and sets its last-seen time, leaving the
\* other records as they are; a match that returns "Unknown" changes no
\* KnownFace.
C13_MatchCounted ==
  [][\A q \in Queries, tolerance \in Tolerances :
       RecognizeFace(q, tolerance)
         => IF lastMatch'.name = Unknown
              THEN known_faces' = known_faces
              ELSE \E i \in DOMAIN known_faces :
                     /\ known_faces[i].name = lastMatch'.name
                     /\ known_faces'[i].detection_count
                          = known_faces[i].detection_count + 1
                     /\ known_faces'[i].last_seen # NeverSeen
                     /\ \A j \in DOMAIN known_faces :
                          j # i => known_faces'[j] = known_faces[j]]_vars

\* C14: remove(name) deletes from the three lists every entry with that
\* name, so that no entry has it afterwards, keeps every other entry in its
\* original relative order, changes nothing when no entry has the name, and
\* reports success in every case.
C14_RemoveAll ==
  [][\A name \in Names, io \in IoOutcomes :
       RemoveKnownFace(name, io)
         => /\ lastCall'.op = "remove" /\ lastCall'.ret
            /\ known_faces' = SelectSeq(known_faces, LAMBDA f : f.name # name)
            /\ face_names' = SelectSeq(face_names, LAMBDA n : n # name)
            /\ face_encodings'
                 = [i \in DOMAIN known_faces' |-> known_faces'[i].encoding]
            /\ \A i \in DOMAIN face_names' : face_names'[i] # name
            /\ (\A i \in DOMAIN face_names : face_names[i] # name)
                 => /\ known_faces' = known_faces
                    /\ face_encodings' = face_encodings
                    /\ face_names' = face_names]_vars

\* A remove has emptied a gallery that held two entries of one name (they
\* are still in the file, the write of the remove having failed).
C14_Witness ==
  /\ lastCall.op = "remove"
  /\ known_faces = <<>>
  /\ disk["faces.pkl"].kind = "gallery"
  /\ Len(disk["faces.pkl"].names) = 2
  /\ disk["faces.pkl"].names[1] = disk["faces.pkl"].names[2]

\* The gallery file of the engine holds exactly the three in-memory lists.
Persisted ==
  /\ model_path # NoDb
  /\ disk[model_path].kind = "gallery"
  /\ disk[model_path].known_faces = known_faces
  /\ disk[model_path].encodings = face_encodings
  /\ disk[model_path].names = face_names

\* C15: whenever add or remove reports success, the gallery file holds the
\* in-memory gallery when the operation returns.
C15_SuccessMeansPersisted ==
  [][/\ \A r \in AddRequests, io \in IoOutcomes :
          (AddKnownFace(r[1], r[2], r[3], io) /\ lastCall'.ret) => Persisted'
     /\ \A name \in Names, io \in IoOutcomes :
          (RemoveKnownFace(name, io) /\ lastCall'.ret) => Persisted']_vars

\* C16: load(path) with no file at path reports success, sets the loaded
\* flag, leaves the in-memory gallery empty and leaves an empty gallery
\* persisted at path.
C16_LoadCreates ==
  [][\A path \in DbPaths, mkdir_ok \in BOOLEAN, io \in IoOutcomes :
       (LoadFaceDatabase(path, mkdir_ok, io) /\ disk[path].kind = "absent")
         => /\ lastCall'.op = "load" /\ lastCall'.ret /\ ~lastCall'.raised
            /\ is_loaded'
            /\ known_faces' = <<>>
            /\ face_encodings' = <<>>
            /\ face_names' = <<>>
            /\ disk'[path].kind = "gallery"
            /\ disk'[path].known_faces = <<>>
            /\ disk'[path].encodings = <<>>
            /\ disk'[path].names = <<>>]_vars

\* C17: load(path) on an existing file that cannot be deserialized returns
\* failure to the caller and does not raise.
C17_LoadFailureReturned ==
  [][\A path \in DbPaths, mkdir_ok \in BOOLEAN, io \in IoOutcomes :
       (LoadFaceDatabase(path, mkdir_ok, io) /\ disk[path].kind = "corrupt")
         => /\ lastCall'.op = "load"
            /\ ~lastCall'.ret
            /\ ~lastCall'.raised]_vars

\* A load of an undeserializable file has returned failure.
C17_Witness ==
  /\ lastCall.op = "load" /\ ~lastCall.ret
  /\ model_path # NoDb
  /\ disk[model_path].kind = "corrupt"

\* C18: save on a gallery without a configured target path raises to the
\* caller, and writes nothing.
C18_SaveWithoutPathRaises ==
  [][\A io \in IoOutcomes :
       (SaveFaceDatabase(io) /\ model_path = NoDb)
         => (lastCall'.op = "save" /\ lastCall'.raised /\ disk' = disk)]_vars

C20_AddFirstFace ==
  [][\A r \in AddRequests, io \in IoOutcomes :
       AddKnownFace(r[1], r[2], r[3], io)
         => IF Len(r[2]) = 0
              THEN /\ lastCall'.op = "add" /\ ~lastCall'.ret
                   /\ known_faces' = known_faces
                   /\ face_encodings' = face_encodings
                   /\ face_names' = face_names
                   /\ disk' = disk
              ELSE /\ Len(known_faces') = Len(known_faces) + 1
                   /\ Len(face_encodings') = Len(face_encodings) + 1
                   /\ Len(face_names') = Len(face_names) + 1
                   /\ SubSeq(known_faces', 1, Len(known_faces)) = known_faces
                   /\ SubSeq(face_encodings', 1, Len(face_encodings))
                        = face_encodings
                   /\ SubSeq(face_names', 1, Len(face_names)) = face_names
                   /\ known_faces'[Len(known_faces')].name = r[1]
                   /\ known_faces'[Len(known_faces')].encoding = r[2][1]
                   /\ face_encodings'[Len(face_encodings')] = r[2][1]
                   /\ face_names'[Len(face_names')] = r[1]]_vars

\* An add on an image with two faces has appended the first of them.
C20_Witness ==
  /\ lastCall.op = "add" /\ lastCall.ret
  /\ known_faces # <<>>
  /\ face_encodings[Len(face_encodings)] = <<3, 4>>

(***************************************************************************)
(* Properties of StorageManager.                                           *)
(***************************************************************************)
\* The files that are strictly older than the retention window on the
\* current day, and the sum of the sizes of a set of files.
OldFiles == {p \in DOMAIN sfiles : sfiles[p] < now - RetentionDays}
RECURSIVE SumOfSizes(_)
SumOfSizes(S) ==
  IF S = {} THEN 0
  ELSE LET p == CHOOSE q \in S : TRUE IN SizeOf(p) + SumOfSizes(S \ {p})

\* C21: cleanup(dry_run=True) deletes no file: the files of the video and
\* results directories are the same after the call as before it.
C21_DryRunKeepsFiles ==
  [][\A faults \in FaultMaps :
       CleanupOldFiles(TRUE, faults) => (sfiles' = sfiles /\ sdirs' = sdirs)]_vars

\* A dry run has reported candidates, and they are still there.
C21_Witness ==
  /\ lastCleanup.called /\ lastCleanup.dry_run
  /\ lastCleanup.files_deleted >= 2
  /\ lastCleanup.deleted_files \subseteq DOMAIN sfiles

C23_Idempotent ==
  [][\A faults \in FaultMaps :
       ( /\ CleanupOldFiles(FALSE, faults)
         /\ lastCleanup.called /\ ~lastCleanup.dry_run
         /\ lastCleanup.undisturbed )
         => /\ sfiles' = sfiles
            /\ lastCleanup'.files_deleted = 0
            /\ lastCleanup'.bytes_freed = 0]_vars

\* C23 amended: as stated, for a second call that computes the same cutoff
\* as the first and a first call that recorded no error.
C23_IdempotentSameCutoff ==
  [][\A faults \in FaultMaps :
       ( /\ CleanupOldFiles(FALSE, faults)
         /\ lastCleanup.called /\ ~lastCleanup.dry_run
         /\ lastCleanup.undisturbed
         /\ lastCleanup.day = now
         /\ lastCleanup.errors = {} )
         => /\ sfiles' = sfiles
            /\ lastCleanup'.files_deleted = 0
            /\ lastCleanup'.bytes_freed = 0]_vars

\* A real cleanup that deleted files was directly followed by a second one
\* on the same day, which deleted none.
C23_Witness ==
  /\ lastCleanup.called /\ ~lastCleanup.dry_run
  /\ lastCleanup.prior_deleted >= 1
  /\ lastCleanup.files_deleted = 0
  /\ lastCleanup.errors = {}

C25_CleanupIffOverThreshold ==
  [][\A stats_ok \in BOOLEAN, usage \in Usages, faults \in FaultMaps :
       MonitorIterate(stats_ok, usage, FALSE, faults) /\ is_monitoring
         => /\ mLast'.cleaned
                 <=> (stats_ok /\ VideoDir \in sdirs
                      /\ usage > CleanupThreshold)
            /\ mLast'.cleaned
                 => /\ ~mLast'.dry_run
                    /\ lastCleanup'.called /\ ~lastCleanup'.dry_run
                    /\ \A p \in DOMAIN sfiles \ DOMAIN sfiles' :
                         p \in lastCleanup'.deleted_files
            /\ ~mLast'.cleaned
                 => sfiles' = sfiles /\ lastCleanup' = lastCleanup
            /\ (usage <= CleanupThreshold \/ VideoDir \notin sdirs)
                 => ~mLast'.cleaned]_vars

\* An iteration above the threshold has triggered a real cleanup, which
\* deleted the old recording of the video directory.
C25_Witness ==
  /\ mLast.ran /\ mLast.cleaned /\ mLast.usage = CleanupThreshold + 1
  /\ lastCleanup.called /\ ~lastCleanup.dry_run
  /\ lastCleanup.files_deleted = 1
  /\ sfiles = [p \in {} |-> 0]

\* C26: an iteration of the storage monitoring loop that hits an error, a
\* failure to compute the storage statistics included, is followed by the
\* fixed error back-off, and that back-off is longer than the default
\* monitor_interval that follows a normal iteration.
C26_ErrorBacksOffLonger ==
  [][\A stats_ok \in BOOLEAN, usage \in Usages, raises \in BOOLEAN,
        faults \in FaultMaps :
       MonitorIterate(stats_ok, usage, raises, faults) /\ is_monitoring
         => IF mLast'.failed \/ mLast'.stats_error
              THEN mLast'.wait = ErrorBackoff
                   /\ ErrorBackoff > MonitorInterval
              ELSE mLast'.wait = MonitorInterval]_vars

\* C27: each background loop (storage monitor, directory watcher, consumer)
\* leaves its loop only in a step that tests its running flag at the head of
\* an iteration and finds it cleared; an exception raised inside an iteration
\* sends the loop to its back-off sleep, never out of the loop; and once the
\* flag is cleared (it is not set again) the loop eventually exits.
C27_LoopsEndOnlyWhenStopped ==
  /\ [][/\ (mPc # "exited" /\ mPc' = "exited")
             => (~is_monitoring /\ mPc \in {"start", "sleep", "backoff"})
        /\ \A t \in TaskIds :
             /\ (wPc[t] # "exited" /\ wPc'[t] = "exited")
                  => (~is_processing
                      /\ wPc[t] \in {"start", "sleep", "backoff"})
             /\ (cPc[t] # "exited" /\ cPc'[t] = "exited")
                  => (~is_processing
                      /\ cPc[t] \in {"start", "get", "process", "backoff"})
             /\ (cPc[t] = "process" /\ cPc'[t] = "exited")
                  => cVideo[t] \in processed']_vars
  /\ (mPc # "none" /\ ~is_monitoring) ~> (mPc = "exited")
  /\ (mainPc # "created" /\ ~is_processing)
       ~> (\A t \in TaskIds : /\ wPc[t] \in {"none", "exited"}
                              /\ cPc[t] \in {"none", "exited"})

\* All three loops have left after a stop, each after an iteration that
\* raised (the failed recording, the monitor's last iteration).
C27_Witness ==
  /\ mPc = "exited" /\ mLast.failed
  /\ failed # {}
  /\ \E t \in TaskIds : wPc[t] = "exited"
  /\ \E t \in TaskIds : cPc[t] = "exited"

\* C28: stitch writes the input videos to the concatenation manifest as a
\* permutation of the input list in ascending order of each video's time
\* key, the key being the creation time from the metadata when the
\* extraction succeeds and the file modification time when it fails; and
\* stitch raises to its caller when the concatenation subprocess exits
\* non-zero.
C28_ManifestSortedByTime ==
  [][\A returncode \in ExitCodes :
       StitchVideos(returncode)
         => LET video_paths == stitchArgs.video_paths
                manifest == lastStitch'.manifest
                key(v) == IF stitchArgs.probe[v] = "ok"
                            THEN stitchArgs.created[v]
                            ELSE stitchArgs.mtime[v]
                count(lst, v) == Cardinality({i \in 1..Len(lst) : lst[i] = v})
            IN /\ lastStitch'.written
                    => /\ Len(manifest) = Len(video_paths)
                       /\ \A v \in Clips :
                            count(manifest, v) = count(video_paths, v)
                       /\ \A i, j \in 1..Len(manifest) :
                            i < j => key(manifest[i]) <= key(manifest[j])
               /\ (lastStitch'.written /\ returncode # 0)
                    => (lastStitch'.raised /\ ~lastStitch'.returned)]_vars

\* A stitch has written its three videos in another order than given, one
\* of them placed by its modification time after a failed extraction, and
\* has raised on ffmpeg's exit code.
C28_Witness ==
  /\ lastStitch.called /\ lastStitch.written /\ lastStitch.raised
  /\ Len(lastStitch.manifest) = 3
  /\ lastStitch.manifest # stitchArgs.video_paths
  /\ \E i \in 1..3 :
       LET v == lastStitch.manifest[i]
       IN /\ stitchArgs.probe[v] = "failed"
          /\ stitchArgs.created[v] # stitchArgs.mtime[v]
          /\ i > 1
          /\ stitchArgs.mtime[v] > stitchArgs.created[lastStitch.manifest[1]]
          /\ stitchArgs.probe[lastStitch.manifest[1]] = "ok"

\* C29: when metadata extraction or face analysis fails for a video (probe
\* exits non-zero, no video stream, video cannot be opened), process_video
\* raises to its caller, returns no result, writes no result file and runs
\* the failed external tool once only; when metadata extraction fails, face
\* analysis is not started.
C29_FailurePropagates ==
  [][\A video_path \in Paths, output_dir \in OutputDirs,
        probe \in ProbeResults, opened \in BOOLEAN :
       ( /\ ProcessVideo(video_path, output_dir, TRUE, probe, opened)
         /\ (probe # "ok" \/ ~opened) )
         => /\ lastProcess'.raised
            /\ ~lastProcess'.returned
            /\ ~lastProcess'.saved
            /\ results' = results
            /\ lastProcess'.probe_runs = 1
            /\ lastProcess'.open_runs <= 1
            /\ probe # "ok"
                 => /\ ~lastProcess'.analysis_started
                    /\ lastProcess'.open_runs = 0]_vars

\* A direct call with an output directory has raised after ffprobe failed,
\* without starting the analysis and without writing the video's result.
C29_Witness ==
  /\ lastProcess.called /\ lastProcess.raised
  /\ lastProcess.probe_runs = 1
  /\ ~lastProcess.analysis_started
  /\ ResultFileName(lastProcess.video) \notin results
  /\ results # {}

\* C30: when several gallery entries are at the same minimal distance from
\* the query, match selects the one that comes first in gallery order, and
\* that entry's name and confidence_threshold alone decide the result.
C30_TieGoesToFirst ==
  (Matched /\ is_loaded)
    => \A i \in DOMAIN face_encodings :
         ( /\ \A j \in DOMAIN face_encodings : MatchDistSq(j) >= MatchDistSq(i)
           /\ \E j \in DOMAIN face_encodings :
                j > i /\ MatchDistSq(j) = MatchDistSq(i)
           /\ \A j \in DOMAIN face_encodings :
                j < i => MatchDistSq(j) > MatchDistSq(i) )
           => lastMatch.name =
                IF WithinTolerance(i) /\ PassesOwnThreshold(i)
                  THEN known_faces[i].name
                  ELSE Unknown

\* Two entries lie at the same minimal, non-zero distance within the
\* tolerance; the first fails its own threshold, the second would pass its
\* own, and the match is "Unknown".
C30_Witness ==
  /\ Matched /\ is_loaded
  /\ lastMatch.name = Unknown
  /\ \E i, j \in DOMAIN face_encodings :
       /\ i < j
       /\ MatchDistSq(i) = MatchDistSq(j)
       /\ MatchDistSq(i) > 0
       /\ \A k \in DOMAIN face_encodings : MatchDistSq(k) >= MatchDistSq(i)
       /\ WithinTolerance(i)
       /\ ~PassesOwnThreshold(i)
       /\ PassesOwnThreshold(j)
       /\ known_faces[i].name # known_faces[j].name

(***************************************************************************)
(* Properties of the results of process_video.                             *)
(***************************************************************************)
\* C31 as stated: in every ProcessingResult of process_video the recognized
\* detections are the subsequence, in order, of the detections whose name
\* is not "Unknown", and the unknown-face count is the number of detections
\* named "Unknown" and is not negative.
C31_RecognizedAreNotUnknown ==
  lastProcess.returned
    => /\ lastProcess.recognized_faces
            = SelectSeq(lastProcess.face_detections,
                        LAMBDA name : name # "Unknown")
       /\ UnknownFaceCount(lastProcess)
            = Cardinality({i \in DOMAIN lastProcess.face_detections :
                             lastProcess.face_detections[i] = "Unknown"})
       /\ UnknownFaceCount(lastProcess) >= 0

\* C31 amended: the recognized detections are the subsequence, in order, of
\* the detections whose name is neither "Unknown" nor empty, and the
\* unknown-face count is the number of detections with such a name and is
\* not negative.
C31_RecognizedAreNamed ==
  lastProcess.returned
    => /\ lastProcess.recognized_faces
            = SelectSeq(lastProcess.face_detections,
                        LAMBDA name : name # "Unknown" /\ name # "")
       /\ UnknownFaceCount(lastProcess)
            = Cardinality({i \in DOMAIN lastProcess.face_detections :
                             lastProcess.face_detections[i] \in {"Unknown", ""}})
       /\ UnknownFaceCount(lastProcess) >= 0

\* A result holds a recognized detection behind an unknown one, and a face
\* of the footage without encoding has left no detection.
C31_Witness ==
  /\ lastProcess.returned
  /\ Len(footage) = 2 /\ footage[2] = NoEncoding
  /\ Len(lastProcess.face_detections) = 1
  /\ \E video \in Paths :
       /\ lastProcess.video = video
       /\ lastProcess.recognized_faces = lastProcess.face_detections
       /\ lastProcess.recognized_faces = <<"alice">>

(***************************************************************************)
(* Properties of the watcher's completeness check and seen set.            *)
(***************************************************************************)
\* C32: a file whose size differs between the two reads of the completeness
\* check, or whose size cannot be read, is not enqueued and not marked seen
\* in that scan, and the next scan checks it again (every video file that is
\* present and not seen is taken up by the scan); a path enters the seen set
\* only in the step that enqueues it, so every seen path has been enqueued.
C32_IncompleteNotSeen ==
  /\ [](\A t \in TaskIds : \A p \in wSeen[t] :
          \E i \in DOMAIN enqLog : enqLog[i] = p)
  /\ [][\A t \in TaskIds :
          /\ \A readable \in BOOLEAN :
               ( /\ CheckFile(t, readable)
                 /\ (~readable \/ wFile[t] \notin DOMAIN fs
                      \/ fs[wFile[t]] # wSize[t]) )
                 => /\ enqLog' = enqLog
                    /\ processing_queue' = processing_queue
                    /\ wFile[t] \notin wSeen'[t]
          /\ \A p \in wSeen'[t] \ wSeen[t] : enqLog' = Append(enqLog, p)
          /\ (WatcherScan(t) /\ is_processing /\ wPc'[t] # "backoff")
               => \A p \in DOMAIN fs :
                    (Suffix(p) \in video_extensions /\ p \notin wSeen[t])
                      => (p \in wTodo'[t] \/ p = wFile'[t])]_vars

\* A watcher has started a check of a recording that has not been enqueued
\* and whose size has already changed since the first of the two reads.
C32_Witness ==
  \E t \in TaskIds :
    /\ wPc[t] = "check"
    /\ wFile[t] = "a.mp4"
    /\ fs["a.mp4"] # wSize[t]
    /\ "a.mp4" \notin wSeen[t]
    /\ \A i \in DOMAIN enqLog : enqLog[i] # "a.mp4"
    /\ \E i \in DOMAIN enqLog : enqLog[i] = "b.mkv"

\* C33: a watcher scan cycle ends by emptying the seen set completely when it
\* holds more than 1000 paths and by leaving it unchanged otherwise; hence at
\* every sleep between two scans the seen set holds at most 1000 paths.
C33_SeenSetBounded ==
  /\ [](\A t \in TaskIds :
          wPc[t] \in {"sleep", "backoff"}
            => Cardinality(wSeen[t]) + wSeenOld[t] <= SeenCap)
  /\ [][\A t \in TaskIds :
          (wPc[t] \in {"start", "sleep", "backoff", "check"}
           /\ wPc'[t] \in {"sleep", "backoff"})
            => \/ /\ wSeen'[t] = {}
                  /\ wSeenOld'[t] = 0
               \/ /\ wSeenOld'[t] = wSeenOld[t]
                  /\ Cardinality(wSeen'[t]) + wSeenOld'[t] <= SeenCap
                  /\ \/ wSeen'[t] = wSeen[t]
                     \/ wSeen'[t] = wSeen[t] \cup {wFile[t]}]_vars

(***************************************************************************)
(* Properties of validate_database.                                        *)
(***************************************************************************)
\* C34: validate reports is_valid = false exactly when it reports at least
\* one error, and duplicate names change neither is_valid nor the error list
\* (both are what they would be for any other list of names of that length).
C34_InvalidExactlyWithErrors ==
  lastCall.op = "validate" =>
    /\ (~lastCall.ret.is_valid) <=> (lastCall.ret.errors # <<>>)
    /\ \A other \in [DOMAIN face_names -> Names] :
         /\ IsValid(known_faces, face_encodings, other) = lastCall.ret.is_valid
         /\ ValidationErrors(known_faces, face_encodings, other)
              = lastCall.ret.errors

(***************************************************************************)
(* Frame of a failed load.                                                 *)
(***************************************************************************)
\* C39: a load that fails leaves the three in-memory lists, the loaded flag
\* and the configured target path as they were before the call (so that a
\* later save does not write to the path whose load failed).
C39_FailedLoadChangesNothing ==
  [][\A path \in DbPaths, mkdir_ok \in BOOLEAN, io \in IoOutcomes :
       (LoadFaceDatabase(path, mkdir_ok, io) /\ lastCall' = LoadFailure)
         => UNCHANGED <<known_faces, face_encodings, face_names, is_loaded,
                        model_path>>]_vars

(***************************************************************************)
(* Properties of the service under repeated starts.                        *)
(***************************************************************************)
\* C35: after any sequence of start and stop calls at most one processing
\* consumer and at most one directory watcher are active.
C35_OneLoopOfEachKind ==
  /\ Cardinality(ActiveLoops(cPc)) <= 1
  /\ Cardinality(ActiveLoops(wPc)) <= 1

(***************************************************************************)
(* The storage monitor and the pipeline on the same directory.             *)
(***************************************************************************)
\* C36: no step removes from the video directory a file that is waiting in
\* the processing queue or being analyzed (only the cleanup the storage
\* monitor triggers removes files).
C36_CleanupSparesPendingVideos ==
  [][\A p \in DOMAIN fs :
       p \notin DOMAIN fs'
         => /\ \A i \in DOMAIN processing_queue : processing_queue[i] # p
            /\ \A t \in Analyzing : cVideo[t] # p]_vars

(***************************************************************************)
(* The result file of a processed video.                                   *)
(***************************************************************************)
\* C37: two distinct videos that the watcher can enqueue and that are
\* processed with the same output directory are not written to the same
\* result file: a process_video call that saves its result after a call that
\* saved the result of another video writes another file.
C37_ResultFilesDistinct ==
  [][\A video_path \in DirectPaths, output_dir \in OutputDirs,
        has_engine \in BOOLEAN, probe \in ProbeResults, opened \in BOOLEAN :
       ( /\ ProcessVideo(video_path, output_dir, has_engine, probe, opened)
         /\ lastProcess.saved
         /\ lastProcess'.saved
         /\ lastProcess.video # video_path
         /\ Suffix(video_path) \in video_extensions
         /\ Suffix(lastProcess.video) \in video_extensions )
         => ResultFileName(video_path) # ResultFileName(lastProcess.video)]_vars

(***************************************************************************)
(* The dry run against the real run.                                       *)
(***************************************************************************)
\* C38: on any files, at any time and with no failing deletion, a dry run
\* reports the files_processed, files_deleted, bytes_freed and deleted_files
\* that a real run on the same files at the same time reports, and leaves
\* the files as they are.
C38_DryRunReportsAsRealRun ==
  [][\A faults \in FaultMaps :
       ( /\ CleanupOldFiles(TRUE, faults)
         /\ \A p \in StoragePaths : faults[p] # "unlink" )
         => LET real == CleanupResults(sfiles, sdirs, now, FALSE, faults)
            IN /\ lastCleanup'.files_processed = real.files_processed
               /\ lastCleanup'.files_deleted = real.files_deleted
               /\ lastCleanup'.bytes_freed = real.bytes_freed
               /\ lastCleanup'.deleted_files = real.deleted_files
               /\ lastCleanup'.deleted_files
                    = DOMAIN sfiles
                        \ DOMAIN FilesAfterCleanup(sfiles, sdirs, now, FALSE,
                                                   faults)
               /\ sfiles' = sfiles]_vars

\* A dry run has reported a file as deleted and an error for another one;
\* the reported file is still there.
C38_Witness ==
  /\ lastCleanup.called /\ lastCleanup.dry_run
  /\ lastCleanup.day = now
  /\ lastCleanup.files_deleted >= 1
  /\ lastCleanup.bytes_freed >= 1
  /\ lastCleanup.errors # {}
  /\ lastCleanup.deleted_files \subseteq DOMAIN sfiles

====
